---- MODULE Spec2Model ----
(***************************************************************************)
(* Model of nornir-ppcheck (src/main.py): the per-device command           *)
(* resolution (NornirCommands.organise_cmds / get_cmds), the run-type      *)
(* dispatch of NornirEngine.cmd_engine, the snapshot / diff methods of     *)
(* NornirCommands, and the load-time checks and the merge of validation    *)
(* files of InputValidate.                                                 *)
(*                                                                         *)
(* Python values are modelled as follows.  A str is a TLA+ string, a list  *)
(* is a sequence, a dict is a function whose domain is the set of keys     *)
(* that are present with a value other than None; a dict whose iteration   *)
(* order matters (groups, hosts) is a sequence of [k, v] entries with      *)
(* distinct keys.  Where one Python variable holds values of several types *)
(* the value carries its type in a field t.                                *)
(***************************************************************************)
EXTENDS Integers, Sequences, FiniteSets, TLC

VARIABLES
    input_data,   \* content of the input file (the CommandSpec), main.py:289
                  \* (the documents of the val_files folder in SpecMerge)
    run_type,     \* run type of the invocation, main.py:646
    data,         \* dict built by compare_arg / noncompare_arg, main.py:270,292
    clock,        \* wall clock in minutes, read by datetime.now()
    files,        \* filesystem: full path -> content
    pc,           \* per host: position of its cmd_engine call
    cmds,         \* per host: local `cmds` of cmd_engine, main.py:380
    result,       \* per host: local `result` list of cmd_engine, main.py:379
    ret,          \* per host: what cmd_engine returned or raised
    log,          \* per host: history of the device commands run, files
                  \* written and diffs made by its cmd_engine call
    runs,         \* number of invocations of main() so far
    outcome,      \* how the validation of the input file ended, main.py:116
    nr_cmd,       \* the NornirCommands instance the attribute self.nr_cmd of
                  \* the one NornirEngine refers to, main.py:376
    dirs          \* filesystem: the directories that exist

vars == <<input_data, run_type, data, clock, files, pc, cmds, result, ret, log,
          runs, outcome, nr_cmd, dirs>>

-----------------------------------------------------------------------------
(* Bounds *)

MaxEntries == 2   \* most entries in the groups / hosts section of a spec
MaxClock == 2     \* last minute the clock reaches
MaxRuns == 2      \* most invocations of main() in one behaviour
MaxFiles == 2     \* most .yml files in the val_files folder

-----------------------------------------------------------------------------
(* Python values *)

PyBool(b) == [t |-> "bool", v |-> IF b THEN 1 ELSE 0]
PyInt(n) == [t |-> "int", v |-> n]
PyList(s) == [t |-> "list", v |-> s]
PyStr(s) == [t |-> "str", v |-> s]
PyPath(s) == [t |-> "Path", v |-> s]

\* bool(x) of a bool, int or list
Truthy(x) == IF x.t = "list" THEN Len(x.v) > 0 ELSE x.v # 0

\* a + b of two bools / ints: bool is a subclass of int, the sum is an int
PyAdd(a, b) == PyInt(a.v + b.v)

\* d.get(k, default)
Get(d, k, default) == IF k \in DOMAIN d THEN d[k] ELSE default

EmptyDict == [k \in {} |-> 0]

\* str.lower() on the letters the identifiers of the model are written with
LowerChar(c) ==
    CASE c = "R" -> "r"
      [] c = "C" -> "c"
      [] c = "E" -> "e"
      [] c = "O" -> "o"
      [] OTHER -> c

RECURSIVE lower(_)
lower(s) == IF Len(s) = 0 THEN "" ELSE LowerChar(Head(s)) \o lower(Tail(s))

-----------------------------------------------------------------------------
(* The inventory: nornir hosts with their name (str(task.host)), hostname  *)
(* and direct groups.                                                      *)

Inventory ==
    { [name |-> "R1", hostname |-> "Core1", groups |-> {"ios", "campus"}],
      [name |-> "r2", hostname |-> "10.0.0.2", groups |-> {"junos"}],
      \* a device whose name holds the name of a snapshot category
      [name |-> "R1_vital", hostname |-> "10.0.0.3", groups |-> {"ios"}] }

HostNames == { h.name : h \in Inventory }

\* the hosts the runs of Spec and SpecResolve filter the inventory to, one at
\* a time, and the hosts an invocation of SpecPair runs side by side
SingleHosts == {"R1", "r2"}
PairHosts == {"R1", "R1_vital"}

Host(n) == CHOOSE h \in Inventory : h.name = n

-----------------------------------------------------------------------------
(* NornirCommands.get_cmds and NornirCommands.organise_cmds *)

RunCfgCmd == <<"show running-config">>

\* faulty variant: the flag of the latest layer replaces the accumulated one
get_cmds_replace(c, leaf) ==
    [ run_cfg |-> PyBool(Get(leaf, "run_cfg", FALSE)),
      print   |-> c.print \o Get(leaf, "cmd_print", <<>>),
      vital   |-> c.vital \o Get(leaf, "cmd_vital", <<>>),
      detail  |-> c.detail \o Get(leaf, "cmd_detail", <<>>) ]

get_cmds(c, leaf) ==
    [ run_cfg |-> PyAdd(c.run_cfg, PyBool(Get(leaf, "run_cfg", FALSE))),
      print   |-> c.print \o Get(leaf, "cmd_print", <<>>),
      vital   |-> c.vital \o Get(leaf, "cmd_vital", <<>>),
      detail  |-> c.detail \o Get(leaf, "cmd_detail", <<>>) ]

\* faulty variant: first matching group wins
RECURSIVE GroupsLoop(_, _, _)
GroupsLoop_first(c, entries, host) ==
    IF entries = <<>> THEN c
    ELSE LET e == Head(entries)
         IN IF e.k \in host.groups THEN get_cmds(c, e.v)
            ELSE GroupsLoop(c, Tail(entries), host)

\* for each_grp in input_data["groups"]: if each_grp in task.host.groups
GroupsLoop(c, entries, host) ==
    IF entries = <<>> THEN c
    ELSE LET e == Head(entries)
             c1 == IF e.k \in host.groups THEN get_cmds(c, e.v) ELSE c
         IN GroupsLoop(c1, Tail(entries), host)

\* faulty variant: the key is compared with the display name only
HostKeyMatches_name(key, host) == lower(key) = lower(host.name)

HostKeyMatches(key, host) ==
    \/ lower(key) = lower(host.name)
    \/ lower(key) = lower(host.hostname)

\* for each_hst in input_data["hosts"]: if each_hst.lower() == ...
RECURSIVE HostsLoop(_, _, _)
HostsLoop(c, entries, host) ==
    IF entries = <<>> THEN c
    ELSE LET e == Head(entries)
             c1 == IF HostKeyMatches(e.k, host) THEN get_cmds(c, e.v) ELSE c
         IN HostsLoop(c1, Tail(entries), host)

organise_cmds(host, spec) ==
    LET c0 == [print |-> <<>>, vital |-> <<>>, detail |-> <<>>,
               run_cfg |-> PyBool(FALSE)]
        c1 == IF "all" \in DOMAIN spec THEN get_cmds(c0, spec["all"]) ELSE c0
        c2 == IF "groups" \in DOMAIN spec
                THEN GroupsLoop(c1, spec["groups"], host) ELSE c1
        c3 == IF "hosts" \in DOMAIN spec
                THEN HostsLoop(c2, spec["hosts"], host) ELSE c2
    IN IF Truthy(c3.run_cfg)
         THEN [c3 EXCEPT !.run_cfg = PyList(RunCfgCmd)]
         ELSE c3

\* get_cmds is called by organise_cmds for one layer at least
get_cmds_called(host, spec) ==
    \/ "all" \in DOMAIN spec
    \/ /\ "groups" \in DOMAIN spec
       /\ \E i \in 1..Len(spec["groups"]) : spec["groups"][i].k \in host.groups
    \/ /\ "hosts" \in DOMAIN spec
       /\ \E i \in 1..Len(spec["hosts"]) : HostKeyMatches(spec["hosts"][i].k, host)

\* faulty variant: the lists kept on the instance by the call before are
\* extended instead of new ones
organise_cmds_on_kept(self, host, spec) ==
    LET c == organise_cmds(host, spec)
        kept == IF self.has_cmds
                  THEN [c EXCEPT !.print = self.cmds.print \o @,
                                 !.vital = self.cmds.vital \o @,
                                 !.detail = self.cmds.detail \o @]
                  ELSE c
    IN [ret |-> kept,
        self |-> IF get_cmds_called(host, spec)
                   THEN [has_cmds |-> TRUE, cmds |-> kept] ELSE self]

\* organise_cmds as a method of the instance `self`: the dict returned is
\* made at line 519 and every call of get_cmds binds it to self.cmds
\* (line 513), which no method reads
organise_cmds_on(self, host, spec) ==
    LET c == organise_cmds(host, spec)
    IN [ret |-> c,
        self |-> IF get_cmds_called(host, spec)
                   THEN [has_cmds |-> TRUE, cmds |-> c] ELSE self]

-----------------------------------------------------------------------------
(* Input specifications the resolution is checked on.  Every layer has its *)
(* own commands (named after the layer) and the command "show dup" occurs  *)
(* in several layers.                                                      *)

GroupKeys == {"ios", "campus", "junos"}
HostKeys == {"r1", "CORE1", "R2", "R10"}
LeafShapes == {"cmds", "cfg"}

LeafOf(tag, shape) ==
    CASE shape = "cmds" ->
           [k \in {"cmd_print", "cmd_vital", "cmd_detail"} |->
              CASE k = "cmd_print" -> <<"show p " \o tag>>
                [] k = "cmd_vital" -> <<"show v " \o tag, "show dup">>
                [] OTHER -> <<"show d " \o tag>>]
      [] shape = "cfg" ->
           [k \in {"run_cfg", "cmd_print"} |->
              IF k = "run_cfg" THEN TRUE ELSE <<"show dup", "show p " \o tag>>]
      [] shape = "nocfg" ->
           [k \in {"run_cfg", "cmd_vital"} |->
              IF k = "run_cfg" THEN FALSE ELSE <<"show v " \o tag>>]
      [] OTHER -> EmptyDict

\* sequences of at most n entries with distinct keys from `keys`
RECURSIVE Sections(_, _)
Sections(keys, n) ==
    IF n = 0 THEN {<<>>}
    ELSE LET shorter == Sections(keys, n - 1)
         IN shorter \cup
            { Append(s, [k |-> key, v |-> LeafOf(key, shape)]) :
                <<s, key, shape>> \in
                  { x \in shorter \X keys \X LeafShapes :
                      /\ Len(x[1]) = n - 1
                      /\ \A i \in 1..Len(x[1]) : x[1][i].k # x[2] } }

AllLeaves == { LeafOf("all", shape) : shape \in {"cmds", "cfg", "nocfg", "empty"} }

ResolveSpecs ==
    { [k \in sel |->
         CASE k = "all" -> a
           [] k = "groups" -> g
           [] OTHER -> hs] :
        <<sel, a, g, hs>> \in
          (SUBSET {"all", "groups", "hosts"}) \X AllLeaves
            \X Sections(GroupKeys, MaxEntries) \X Sections(HostKeys, MaxEntries) }

-----------------------------------------------------------------------------
(* Initial values shared by the specifications *)

\* the files at the start: two files the user keeps in the working directory
\* to be compared, and a vital snapshot of R1 that a run of the day before
\* left in the output folder
InitFiles ==
    [p \in {"chg/pre.txt", "chg/post.txt", "chg/output/R1_vital_20231231-2359.txt"} |->
       CASE p = "chg/pre.txt" -> "line1\nline2\n"
         [] p = "chg/post.txt" -> "line1\nline3\n"
         [] OTHER -> "==== show arp =======================================================================\n<show arp@R1#0>\n\n\n"]

NoData == EmptyDict
NoCmds == [print |-> <<>>, vital |-> <<>>, detail |-> <<>>, run_cfg |-> PyBool(FALSE)]
NoRet == [t |-> "none", v |-> ""]
NoOutcome == [status |-> "none", code |-> 0, out |-> ""]

\* NornirCommands(): an instance without the attribute cmds, lines 502-503
NoInstance == [has_cmds |-> FALSE, cmds |-> NoCmds]

\* the directories at the start: the change directory and its output folder
InitDirs == {"chg", "chg/output"}

InitRest ==
    /\ run_type = "none"
    /\ data = NoData
    /\ clock = 0
    /\ files = InitFiles
    /\ pc = [n \in HostNames |-> "idle"]
    /\ cmds = [n \in HostNames |-> NoCmds]
    /\ result = [n \in HostNames |-> <<>>]
    /\ ret = [n \in HostNames |-> NoRet]
    /\ log = [n \in HostNames |-> <<>>]
    /\ runs = 0
    /\ outcome = NoOutcome
    /\ nr_cmd = NoInstance
    /\ dirs = InitDirs

-----------------------------------------------------------------------------
(* Specification of the resolution alone: organise_cmds applied to every   *)
(* input specification of ResolveSpecs, for each host of the inventory.    *)

InitResolve ==
    /\ input_data \in ResolveSpecs
    /\ InitRest

Resolve(n) ==
    /\ pc[n] = "idle"
    /\ LET r == organise_cmds_on(nr_cmd, Host(n), input_data)
       IN /\ cmds' = [cmds EXCEPT ![n] = r.ret]
          /\ nr_cmd' = r.self
    /\ pc' = [pc EXCEPT ![n] = "resolved"]
    /\ UNCHANGED <<dirs, outcome, input_data, run_type, data, clock, files, result, ret, log,
                   runs>>

NextResolve == \E n \in SingleHosts : Resolve(n)

SpecResolve == InitResolve /\ [][NextResolve]_vars

-----------------------------------------------------------------------------
(* Strings, paths and the clock *)

\* the characters of the paths of the model, in code point order
CodePoints == "-./0123456789ABCDEFGHIJKLMNOPQRSTUVWXYZ_abcdefghijklmnopqrstuvwxyz"

Code(c) == CHOOSE i \in 1..Len(CodePoints) : SubSeq(CodePoints, i, i) = c

\* a < b for Python str
RECURSIVE StrLess(_, _)
StrLess(a, b) ==
    IF Len(b) = 0 THEN FALSE
    ELSE IF Len(a) = 0 THEN TRUE
    ELSE IF Head(a) = Head(b) THEN StrLess(Tail(a), Tail(b))
    ELSE Code(Head(a)) < Code(Head(b))

\* list.sort(reverse=True) of a list of distinct strings
RECURSIVE SortReverse(_)
SortReverse(S) ==
    IF S = {} THEN <<>>
    ELSE LET m == CHOOSE x \in S : \A y \in S \ {x} : StrLess(y, x)
         IN <<m>> \o SortReverse(S \ {m})

StartsWith(s, prefix) ==
    Len(s) >= Len(prefix) /\ SubSeq(s, 1, Len(prefix)) = prefix

Occurrences(s, sep) ==
    { i \in 1..(Len(s) - Len(sep) + 1) : SubSeq(s, i, i + Len(sep) - 1) = sep }

SetMin(S) == CHOOSE x \in S : \A y \in S : x <= y
SetMax(S) == CHOOSE x \in S : \A y \in S : x >= y

\* s.split(sep)[0]
SplitFirst(s, sep) ==
    IF Occurrences(s, sep) = {} THEN s
    ELSE SubSeq(s, 1, SetMin(Occurrences(s, sep)) - 1)

\* s.replace("\\", "/").split("/")[-1]; no path of the model has a backslash
BaseName(s) ==
    IF Occurrences(s, "/") = {} THEN s
    ELSE SubSeq(s, SetMax(Occurrences(s, "/")) + 1, Len(s))

\* os.path.join(a, b) for a relative b
PathJoin(a, b) == a \o "/" \o b

\* "\n".join(lines)
RECURSIVE JoinWith(_, _)
JoinWith(sep, lines) ==
    IF lines = <<>> THEN ""
    ELSE IF Len(lines) = 1 THEN lines[1]
    ELSE lines[1] \o sep \o JoinWith(sep, Tail(lines))

\* "=" * n
RECURSIVE Equals(_)
Equals(n) == IF n <= 0 THEN "" ELSE "=" \o Equals(n - 1)

Digit(d) == SubSeq("0123456789", d + 1, d + 1)
TwoDigits(n) == Digit((n \div 10) % 10) \o Digit(n % 10)

\* datetime.now().strftime("%Y%m%d-%H%M"), the clock counting the minutes of
\* 1 January 2024 from 00:00
Strftime(now) == "20240101-" \o TwoDigits(now \div 60) \o TwoDigits(now % 60)

\* folders: BASE_DIRECTORY / file_path[0] and its output folder
WorkingDir == "chg"
output_folder == "output"
OutputFldr == PathJoin(WorkingDir, output_folder)
INPUT_CMD_FILE == "input_cmds.yml"

-----------------------------------------------------------------------------
(* The device session: netmiko_send_command returns the text the device    *)
(* prints; the device is in another state at every invocation v, so the    *)
(* text of one command differs from one invocation to the next.            *)

SessionOutput(n, cmd, v) == "<" \o cmd \o "@" \o n \o "#" \o Digit(v) \o ">"

Banner(each_cmd) ==
    "==== " \o each_cmd \o " " \o Equals(79 - Len(each_cmd)) \o "\n"

RECURSIVE run_cmds(_, _, _)
\* faulty variant: the output of a command is put in front of the text
run_cmds_reverse(n, cmd, v) ==
    IF cmd = <<>> THEN ""
    ELSE run_cmds(n, Tail(cmd), v)
           \o Banner(Head(cmd)) \o SessionOutput(n, Head(cmd), v) \o "\n\n\n"

\* NornirCommands.run_cmds: the text returned
run_cmds(n, cmd, v) ==
    IF cmd = <<>> THEN ""
    ELSE Banner(Head(cmd)) \o SessionOutput(n, Head(cmd), v) \o "\n\n\n"
           \o run_cmds(n, Tail(cmd), v)

\* history events
ExecEvent(cat, cmd) == [op |-> "exec", cat |-> cat, a |-> cmd, b |-> "", c |-> ""]
WriteEvent(cat, path) == [op |-> "write", cat |-> cat, a |-> path, b |-> "", c |-> ""]
DiffEvent(cat, pre, post, out) == [op |-> "diff", cat |-> cat, a |-> pre, b |-> post, c |-> out]

\* the device commands run_cmds sends, one task.run each, in list order
ExecEvents(cat, cmd) == [i \in 1..Len(cmd) |-> ExecEvent(cat, cmd[i])]

\* NornirCommands.save_cmds: the file written
save_cmds_file(n, rtype, d, now) ==
    PathJoin(d["output_fldr"], n \o "_" \o rtype \o "_" \o Strftime(now) \o ".txt")

\* write_file / open(..., "w"): the file is created or replaced
WriteFile(fs, path, content) ==
    [p \in DOMAIN fs \cup {path} |-> IF p = path THEN content ELSE fs[p]]

\* the report lines; the check mark, cross and warning sign of the source
\* are written [OK], [X] and [!]
SavedMsg(output_file) == "[OK] Created command output file '" \o output_file \o "'"
DiffMsg(output_file) == "[OK] Created compare HTML file '" \o output_file \o "'"
\* faulty variant: the number of files is not the number matched
OnlyMsg_one(count, file_filter) ==
    "[X] Only 1 file matched the filter '" \o file_filter
      \o "' for files to be compared"

OnlyMsg(count, file_filter) ==
    "[X] Only " \o Digit(count) \o " file matched the filter '" \o file_filter
      \o "' for files to be compared"
WarnMsg(empties) == "[!]  There were no commands to run for: " \o empties

\* NornirCommands.run_save_cmd: message returned, files and history after it
run_save_cmd(n, rtype, d, cmd, v, fs, now) ==
    IF Len(cmd) # 0
      THEN LET output == run_cmds(n, cmd, v)
               output_file == save_cmds_file(n, rtype, d, now)
           IN [msg |-> SavedMsg(output_file),
               files |-> WriteFile(fs, output_file, output),
               events |-> ExecEvents(rtype, cmd) \o <<WriteEvent(rtype, output_file)>>]
      ELSE [msg |-> "empty", files |-> fs, events |-> <<>>]

\* difflib.HtmlDiff().make_file(pre, post, pre_name, post_name) and the
\* replacement of the tbody tag
MakeFile(pre, post, pre_name, post_name) ==
    "<html>" \o pre_name \o "|" \o post_name \o "<tbody style=font-size:12px>"
      \o pre \o "|" \o post \o "</html>"

\* NornirCommands.create_diff; data["cmp_file1"].replace("\\", "/") is
\* str.replace when the value is a str, for a pathlib.Path the call is
\* Path.replace(target) with one argument too many and raises TypeError
create_diff(file_type, d, fs, now) ==
    IF d["cmp_file1"].t # "str" \/ d["cmp_file2"].t # "str"
      THEN [raised |-> "TypeError", msg |-> "", files |-> fs, events |-> <<>>]
    ELSE
      LET pre_file_name == BaseName(d["cmp_file1"].v)
          post_file_name == BaseName(d["cmp_file2"].v)
          tmp_name == SplitFirst(pre_file_name, file_type) \o "diff_" \o file_type
                        \o "_" \o Strftime(now) \o ".html"
          output_file == PathJoin(d["output_fldr"], tmp_name)
      IN IF d["cmp_file1"].v \notin DOMAIN fs \/ d["cmp_file2"].v \notin DOMAIN fs
           THEN [raised |-> "FileNotFoundError", msg |-> "", files |-> fs,
                 events |-> <<>>]
           ELSE [raised |-> "",
                 msg |-> DiffMsg(output_file),
                 files |-> WriteFile(fs, output_file,
                              MakeFile(fs[d["cmp_file1"].v], fs[d["cmp_file2"].v],
                                       pre_file_name, post_file_name)),
                 events |-> <<DiffEvent(file_type, d["cmp_file1"].v,
                                        d["cmp_file2"].v, output_file)>>]

\* glob.glob(file_filter) for a filter "<folder>/<prefix>*"
Glob(fs, folder, prefix) ==
    { p \in DOMAIN fs :
        /\ StartsWith(p, PathJoin(folder, prefix))
        /\ Occurrences(SubSeq(p, Len(folder) + 2, Len(p)), "/") = {} }

\* list.sort() of a list of distinct strings
RECURSIVE SortAscending(_)
SortAscending(S) ==
    IF S = {} THEN <<>>
    ELSE LET m == CHOOSE x \in S : \A y \in S \ {x} : StrLess(x, y)
         IN <<m>> \o SortAscending(S \ {m})

\* faulty variant: the matched files are sorted in ascending order
pos_create_diff_ascending(n, file_type, output_fldr, fs, now) ==
    LET prefix == n \o "_" \o file_type
        file_filter == PathJoin(output_fldr, prefix \o "*")
        matched == SortAscending(Glob(fs, output_fldr, prefix))
    IN IF Len(matched) >= 2
         THEN create_diff(file_type,
                          [k \in {"output_fldr", "cmp_file1", "cmp_file2"} |->
                             CASE k = "output_fldr" -> output_fldr
                               [] k = "cmp_file1" -> PyStr(matched[2])
                               [] OTHER -> PyStr(matched[1])],
                          fs, now)
         ELSE [raised |-> "", msg |-> OnlyMsg(Len(matched), file_filter),
               files |-> fs, events |-> <<>>]

\* NornirCommands.pos_create_diff
pos_create_diff(n, file_type, output_fldr, fs, now) ==
    LET prefix == n \o "_" \o file_type
        file_filter == PathJoin(output_fldr, prefix \o "*")
        matched == SortReverse(Glob(fs, output_fldr, prefix))
    IN IF Len(matched) >= 2
         THEN create_diff(file_type,
                          [k \in {"output_fldr", "cmp_file1", "cmp_file2"} |->
                             CASE k = "output_fldr" -> output_fldr
                               [] k = "cmp_file1" -> PyStr(matched[2])
                               [] OTHER -> PyStr(matched[1])],
                          fs, now)
         ELSE [raised |-> "", msg |-> OnlyMsg(Len(matched), file_filter),
               files |-> fs, events |-> <<>>]

-----------------------------------------------------------------------------
(* InputValidate._val_input_file on what yaml.load made of the input file. *)
(* A document is None (an empty file) or a mapping; the value of a key is  *)
(* a mapping, a list, a string or None (a key without a value).            *)

PyNone == [t |-> "None", v |-> 0]
PyDict(d) == [t |-> "dict", v |-> d]

\* input_data.get(key) of a document that is a mapping
DocGet(doc, key) == IF key \in DOMAIN doc.v THEN doc.v[key] ELSE PyNone

\* the messages printed before sys.exit(1); the cross mark :x: is written [X]
EmptyMsg(rtype, input_file) ==
    "[X] The '" \o rtype \o "' input file " \o input_file \o " is empty"

NoSectionMsg(input_file) ==
    "[X] " \o input_file
      \o " must have at least one [i]hosts, groups[/i] or [i]all[/i] dictionary"

SysExit(code, out) == [status |-> "exit", code |-> code, out |-> out]

\* faulty variant: a section that is present is taken for a mapping
_val_input_file_present(rtype, input_file, doc) ==
    IF doc.t = "None" THEN SysExit(1, EmptyMsg(rtype, input_file))
    ELSE IF doc.t # "dict"
      THEN [status |-> "raise", code |-> 1, out |-> "AttributeError"]
    ELSE IF \E key \in {"hosts", "groups", "all"} : key \in DOMAIN doc.v
      THEN [status |-> "accepted", code |-> 0, out |-> ""]
    ELSE SysExit(1, NoSectionMsg(input_file))

\* lines 116-129; a document that is neither None nor a mapping has no
\* method get and line 123 raises AttributeError
_val_input_file(rtype, input_file, doc) ==
    IF doc.t = "None" THEN SysExit(1, EmptyMsg(rtype, input_file))
    ELSE IF doc.t # "dict"
      THEN [status |-> "raise", code |-> 1, out |-> "AttributeError"]
    ELSE IF \E key \in {"hosts", "groups", "all"} : DocGet(doc, key).t = "dict"
      THEN [status |-> "accepted", code |-> 0, out |-> ""]
    ELSE SysExit(1, NoSectionMsg(input_file))

\* the values of the keys of the documents validated
SectionValues ==
    { PyDict([k \in {"cmd_print"} |-> PyList(<<"show version">>)]),
      PyDict(EmptyDict), PyList(<<>>), PyStr("R1"), PyNone }

DocKeys == {"hosts", "groups", "all", "foo"}

\* the documents validated: the empty file and every mapping of a subset
\* of DocKeys to SectionValues
Documents ==
    {PyNone} \cup
      { PyDict(d) : d \in UNION { [keys -> SectionValues] : keys \in SUBSET DocKeys } }

InitValidate ==
    /\ input_data \in Documents
    /\ run_type = "none"
    /\ data = NoData
    /\ clock = 0
    /\ files = InitFiles
    /\ pc = [n \in HostNames |-> "idle"]
    /\ cmds = [n \in HostNames |-> NoCmds]
    /\ result = [n \in HostNames |-> <<>>]
    /\ ret = [n \in HostNames |-> NoRet]
    /\ log = [n \in HostNames |-> <<>>]
    /\ runs = 0
    /\ outcome = NoOutcome
    /\ nr_cmd = NoInstance
    /\ dirs = InitDirs

\* noncompare_arg lines 288-290 for a change directory: the input file is
\* loaded and validated
ValInputFile ==
    /\ outcome.status = "none"
    /\ \E arg \in {"print", "vital_save", "detail_save", "pre_test", "post_test"} :
          /\ run_type' = arg
          /\ outcome' = _val_input_file(arg, PathJoin(WorkingDir, INPUT_CMD_FILE),
                                        input_data)
    /\ UNCHANGED <<nr_cmd, dirs, input_data, data, clock, files, pc, cmds, result, ret,
                   log, runs>>

NextValidate == ValInputFile

SpecValidate == InitValidate /\ [][NextValidate]_vars

-----------------------------------------------------------------------------
(* The invocation: main() validates the arguments, builds `data` and       *)
(* task_engine runs cmd_engine for every host of the filtered inventory.   *)

\* input files of the runs: every one passes _val_input_file
RunSpecs ==
    { \* every category for the hosts of one group, nothing for the others
      [k \in {"groups"} |->
         <<[k |-> "ios",
            v |-> [j \in {"run_cfg", "cmd_print", "cmd_vital", "cmd_detail"} |->
                     CASE j = "run_cfg" -> TRUE
                       [] j = "cmd_print" -> <<"show version">>
                       [] j = "cmd_vital" -> <<"show arp", "show ip route">>
                       [] OTHER -> <<"show tech">>]]>>],
      \* vital commands only for one host, the running configuration only
      \* for the hosts of a group
      [k \in {"hosts", "groups"} |->
         IF k = "hosts"
           THEN <<[k |-> "R1", v |-> [j \in {"cmd_vital"} |-> <<"show arp">>]]>>
           ELSE <<[k |-> "junos", v |-> [j \in {"run_cfg"} |-> TRUE]]>>],
      \* print and detail commands for every host, no vital command
      [k \in {"all"} |->
         [j \in {"cmd_print", "cmd_detail"} |->
            IF j = "cmd_print" THEN <<"show version">> ELSE <<"show tech">>]] }

\* input file of the runs of two hosts: the hosts of one group save the
\* running configuration and have one vital command, no other command
PairSpecs ==
    { [k \in {"groups"} |->
         <<[k |-> "ios",
            v |-> [j \in {"run_cfg", "cmd_vital"} |->
                     IF j = "run_cfg" THEN TRUE ELSE <<"show arp">>]]>>] }

CompareArgs == {"pre.txt", "post.txt"}

\* run_type.replace("_save", "")
StripSave(arg) ==
    CASE arg = "vital_save" -> "vital"
      [] arg = "detail_save" -> "detail"
      [] OTHER -> arg

RunArgs == {"print", "vital_save", "detail_save", "compare", "pre_test", "post_test"}

\* InputValidate.compare_arg, both files existing
compare_arg(f1, f2) ==
    [k \in {"output_fldr", "cmp_file1", "cmp_file2"} |->
       CASE k = "output_fldr" -> OutputFldr
         [] k = "cmp_file1" -> PyPath(PathJoin(WorkingDir, f1))
         [] OTHER -> PyPath(PathJoin(WorkingDir, f2))]

\* InputValidate.noncompare_arg for a change directory with a valid input file
noncompare_arg(spec) ==
    [k \in {"output_fldr", "input_file", "input_data"} |->
       CASE k = "output_fldr" -> OutputFldr
         [] k = "input_file" -> PathJoin(WorkingDir, INPUT_CMD_FILE)
         [] OTHER -> spec]

Finished(n) == pc[n] \in {"idle", "done", "failed"}

StartRuns(arg, d, targets) ==
    /\ \A n \in HostNames : Finished(n)
    /\ runs < MaxRuns
    /\ runs' = runs + 1
    /\ run_type' = StripSave(arg)
    /\ data' = d
    /\ pc' = [n \in HostNames |-> IF n \in targets THEN "start" ELSE "idle"]
    /\ cmds' = [n \in HostNames |-> NoCmds]
    /\ result' = [n \in HostNames |-> <<>>]
    /\ ret' = [n \in HostNames |-> NoRet]
    /\ log' = [n \in HostNames |-> <<>>]
    \* line 95: the output folder is made if it is not there; line 673: a
    \* new NornirEngine, its attribute nr_cmd not yet set
    /\ dirs' = dirs \cup {OutputFldr}
    /\ nr_cmd' = NoInstance
    /\ UNCHANGED <<outcome, input_data, clock, files>>

\* main() with the compare flag, for the hosts the inventory is filtered to
MainCompare(targets) ==
    \E f1 \in CompareArgs : \E f2 \in CompareArgs \ {f1} :
        /\ PathJoin(WorkingDir, f1) \in DOMAIN files
        /\ PathJoin(WorkingDir, f2) \in DOMAIN files
        /\ StartRuns("compare", compare_arg(f1, f2), targets)

\* main() with one of the other flags
MainNonCompare(targets) ==
    \E arg \in RunArgs \ {"compare"} :
        /\ StartRuns(arg, noncompare_arg(input_data), targets)

\* time passes
Tick ==
    /\ clock < MaxClock
    /\ clock' = clock + 1
    /\ UNCHANGED <<nr_cmd, dirs, outcome, input_data, run_type, data, files, pc, cmds, result, ret, log,
                   runs>>

-----------------------------------------------------------------------------
(* NornirEngine.cmd_engine for host n, one action per sub-operation *)

Goto(n, label) == pc' = [pc EXCEPT ![n] = label]

AppendResult(n, line) == result' = [result EXCEPT ![n] = Append(@, line)]

AppendLog(n, events) == log' = [log EXCEPT ![n] = @ \o events]

\* line 376: self.nr_cmd = NornirCommands(), on the engine every host's
\* cmd_engine call shares
NewCommands(n) ==
    /\ pc[n] = "start"
    /\ nr_cmd' = NoInstance
    /\ Goto(n, "organise")
    /\ UNCHANGED <<dirs, outcome, input_data, run_type, data, clock, files, cmds, result,
                   ret, log, runs>>

\* lines 379-380: the method is called on the instance self.nr_cmd refers
\* to at this moment
Organise(n) ==
    /\ pc[n] = "organise"
    /\ LET r == organise_cmds_on(nr_cmd, Host(n), Get(data, "input_data", EmptyDict))
       IN /\ cmds' = [cmds EXCEPT ![n] = r.ret]
          /\ nr_cmd' = r.self
    /\ result' = [result EXCEPT ![n] = <<>>]
    /\ Goto(n, "run_cfg")
    /\ UNCHANGED <<dirs, outcome, input_data, run_type, data, clock, files, ret, log, runs>>

\* faulty variant: the running configuration is not saved in a print run
Preamble_notprint(n) ==
    /\ pc[n] = "run_cfg"
    /\ IF Truthy(cmds[n].run_cfg) /\ run_type # "print"
         THEN LET r == run_save_cmd(n, "config", data, cmds[n].run_cfg.v, runs,
                                    files, clock)
              IN /\ AppendResult(n, r.msg)
                 /\ files' = r.files
                 /\ AppendLog(n, r.events)
         ELSE UNCHANGED <<result, files, log>>
    /\ Goto(n, "branch")
    /\ UNCHANGED <<nr_cmd, dirs, outcome, input_data, run_type, data, clock, cmds, ret, runs>>

\* lines 382-386
Preamble(n) ==
    /\ pc[n] = "run_cfg"
    /\ IF Truthy(cmds[n].run_cfg) /\ "output_fldr" \in DOMAIN data
         THEN LET r == run_save_cmd(n, "config", data, cmds[n].run_cfg.v, runs,
                                    files, clock)
              IN /\ AppendResult(n, r.msg)
                 /\ files' = r.files
                 /\ AppendLog(n, r.events)
         ELSE UNCHANGED <<result, files, log>>
    /\ Goto(n, "branch")
    /\ UNCHANGED <<nr_cmd, dirs, outcome, input_data, run_type, data, clock, cmds, ret, runs>>

\* NornirCommands.run_print_cmd: the commands run, their output is displayed
run_print_cmd(n, cmd) ==
    IF Len(cmd) # 0 THEN AppendLog(n, ExecEvents("print", cmd)) ELSE UNCHANGED log

\* faulty variant: the output of the print commands is saved like a snapshot
PrintRun_save(n) ==
    /\ pc[n] = "branch"
    /\ run_type = "print"
    /\ LET r == run_save_cmd(n, "print", data, cmds[n].print, runs, files, clock)
       IN /\ files' = r.files
          /\ AppendLog(n, r.events)
    /\ Goto(n, "report")
    /\ UNCHANGED <<nr_cmd, dirs, outcome, input_data, run_type, data, clock, cmds, result, ret, runs>>

\* lines 388-389
PrintRun(n) ==
    /\ pc[n] = "branch"
    /\ run_type = "print"
    /\ run_print_cmd(n, cmds[n].print)
    /\ Goto(n, "report")
    /\ UNCHANGED <<nr_cmd, dirs, outcome, input_data, run_type, data, clock, files, cmds, result, ret, runs>>

\* faulty variant: the vital list is run whatever the run type
SaveRun_vital(n) ==
    /\ pc[n] = "branch"
    /\ run_type = "vital" \/ run_type = "detail"
    /\ LET r == run_save_cmd(n, run_type, data, cmds[n].vital, runs, files, clock)
       IN /\ AppendResult(n, r.msg)
          /\ files' = r.files
          /\ AppendLog(n, r.events)
    /\ Goto(n, "report")
    /\ UNCHANGED <<nr_cmd, dirs, outcome, input_data, run_type, data, clock, cmds, ret, runs>>

\* lines 391-394
SaveRun(n) ==
    /\ pc[n] = "branch"
    /\ run_type = "vital" \/ run_type = "detail"
    /\ LET r == run_save_cmd(n, run_type, data, cmds[n][run_type], runs, files, clock)
       IN /\ AppendResult(n, r.msg)
          /\ files' = r.files
          /\ AppendLog(n, r.events)
    /\ Goto(n, "report")
    /\ UNCHANGED <<nr_cmd, dirs, outcome, input_data, run_type, data, clock, cmds, ret, runs>>

\* lines 396-397
CompareRun(n) ==
    /\ pc[n] = "branch"
    /\ run_type = "compare"
    /\ LET r == create_diff("compare", data, files, clock)
       IN IF r.raised # ""
            THEN /\ Goto(n, "failed")
                 /\ ret' = [ret EXCEPT ![n] = [t |-> "raise", v |-> r.raised]]
                 /\ UNCHANGED <<result, files, log>>
            ELSE /\ Goto(n, "report")
                 /\ AppendResult(n, r.msg)
                 /\ files' = r.files
                 /\ AppendLog(n, r.events)
                 /\ UNCHANGED ret
    /\ UNCHANGED <<nr_cmd, dirs, outcome, input_data, run_type, data, clock, cmds, runs>>

\* line 401
PrePostPrint(n) ==
    /\ pc[n] = "branch"
    /\ run_type \notin {"print", "vital", "detail", "compare"}
    /\ run_print_cmd(n, cmds[n].print)
    /\ Goto(n, "pp_vital")
    /\ UNCHANGED <<nr_cmd, dirs, outcome, input_data, run_type, data, clock, files, cmds, result, ret, runs>>

\* faulty variant: the branches of pre_test and post_test are swapped
PrePostVital_swap(n) ==
    /\ pc[n] = "pp_vital"
    /\ LET r == run_save_cmd(n, "vital", data, cmds[n].vital, runs, files, clock)
       IN /\ AppendResult(n, r.msg)
          /\ files' = r.files
          /\ AppendLog(n, r.events)
    /\ Goto(n, CASE run_type = "pre_test" -> "post_vital"
                 [] run_type = "post_test" -> "pre_detail"
                 [] OTHER -> "report")
    /\ UNCHANGED <<nr_cmd, dirs, outcome, input_data, run_type, data, clock, cmds, ret, runs>>

\* line 402
PrePostVital(n) ==
    /\ pc[n] = "pp_vital"
    /\ LET r == run_save_cmd(n, "vital", data, cmds[n].vital, runs, files, clock)
       IN /\ AppendResult(n, r.msg)
          /\ files' = r.files
          /\ AppendLog(n, r.events)
    /\ Goto(n, CASE run_type = "pre_test" -> "pre_detail"
                 [] run_type = "post_test" -> "post_vital"
                 [] OTHER -> "report")
    /\ UNCHANGED <<nr_cmd, dirs, outcome, input_data, run_type, data, clock, cmds, ret, runs>>

\* lines 404-407
PreDetail(n) ==
    /\ pc[n] = "pre_detail"
    /\ LET r == run_save_cmd(n, "detail", data, cmds[n].detail, runs, files, clock)
       IN /\ AppendResult(n, r.msg)
          /\ files' = r.files
          /\ AppendLog(n, r.events)
    /\ Goto(n, "report")
    /\ UNCHANGED <<nr_cmd, dirs, outcome, input_data, run_type, data, clock, cmds, ret, runs>>

\* one call of pos_create_diff in cmd_engine, going on at `next`
PostDiff(n, file_type, next) ==
    LET r == pos_create_diff(n, file_type, data["output_fldr"], files, clock)
    IN IF r.raised # ""
         THEN /\ Goto(n, "failed")
              /\ ret' = [ret EXCEPT ![n] = [t |-> "raise", v |-> r.raised]]
              /\ UNCHANGED <<result, files, log>>
         ELSE /\ Goto(n, next)
              /\ AppendResult(n, r.msg)
              /\ files' = r.files
              /\ AppendLog(n, r.events)
              /\ UNCHANGED ret

\* faulty variant: the config snapshots are compared whether run_cfg is set or not
PostDiffVital_always(n) ==
    /\ pc[n] = "post_vital"
    /\ PostDiff(n, "vital", "post_config")
    /\ UNCHANGED <<nr_cmd, dirs, outcome, input_data, run_type, data, clock, cmds, runs>>

\* faulty variant: a vital auto-diff that matched fewer than two files ends
\* the sub-operations of the run
PostDiffVital_abort(n) ==
    /\ pc[n] = "post_vital"
    /\ PostDiff(n, "vital",
                IF /\ Truthy(cmds[n].run_cfg)
                   /\ Cardinality(Glob(files, data["output_fldr"], n \o "_vital")) >= 2
                  THEN "post_config" ELSE "report")
    /\ UNCHANGED <<nr_cmd, dirs, outcome, input_data, run_type, data, clock, cmds, runs>>

\* lines 409-412
PostDiffVital(n) ==
    /\ pc[n] = "post_vital"
    /\ PostDiff(n, "vital",
                IF Truthy(cmds[n].run_cfg) THEN "post_config" ELSE "report")
    /\ UNCHANGED <<nr_cmd, dirs, outcome, input_data, run_type, data, clock, cmds, runs>>

\* lines 413-416
PostDiffConfig(n) ==
    /\ pc[n] = "post_config"
    /\ PostDiff(n, "config", "report")
    /\ UNCHANGED <<nr_cmd, dirs, outcome, input_data, run_type, data, clock, cmds, runs>>

\* faulty variant: a host without run_cfg is not reported as without config
empty_result_noconfig(c) ==
    SelectSeq(<<"print", "vital", "detail">>, LAMBDA each_type : Len(c[each_type]) = 0)

\* lines 419-423
empty_result(c) ==
    SelectSeq(<<"print", "vital", "detail">>, LAMBDA each_type : Len(c[each_type]) = 0)
      \o (IF ~Truthy(c.run_cfg) THEN <<"config">> ELSE <<>>)

\* list.remove(x) under contextlib.suppress(ValueError): the first item
\* equal to x is removed, if there is one
RECURSIVE ListRemove(_, _)
ListRemove(lst, x) ==
    IF lst = <<>> THEN <<>>
    ELSE IF Head(lst) = x THEN Tail(lst)
    ELSE <<Head(lst)>> \o ListRemove(Tail(lst), x)

\* lines 418-436
Report(n) ==
    /\ pc[n] = "report"
    /\ LET empties == empty_result(cmds[n])
           res == IF Len(empties) # 0
                     /\ (run_type = "pre_test" \/ run_type = "post_test")
                    THEN Append(result[n], WarnMsg(JoinWith(", ", empties)))
                    ELSE result[n]
       IN IF Len(res) # 0
            THEN /\ result' = [result EXCEPT ![n] = ListRemove(res, "empty")]
                 /\ ret' = [ret EXCEPT
                              ![n] = [t |-> "Result",
                                      v |-> JoinWith("\n", ListRemove(res, "empty"))]]
            ELSE /\ result' = [result EXCEPT ![n] = res]
                 /\ ret' = [ret EXCEPT ![n] = [t |-> "None", v |-> ""]]
    /\ Goto(n, "done")
    /\ UNCHANGED <<nr_cmd, dirs, outcome, input_data, run_type, data, clock, files, cmds, log, runs>>

CmdEngine(n) ==
    \/ NewCommands(n)
    \/ Organise(n)
    \/ Preamble(n)
    \/ PrintRun(n)
    \/ SaveRun(n)
    \/ CompareRun(n)
    \/ PrePostPrint(n)
    \/ PrePostVital(n)
    \/ PreDetail(n)
    \/ PostDiffVital(n)
    \/ PostDiffConfig(n)
    \/ Report(n)

\* NornirEngine.task_engine lines 492-495: nornir wraps what cmd_engine
\* returned in a Result (result=None when it returned None) and the results
\* are printed unless the result of the host is the text "Nothing run"
NothingRun == "Nothing run"

task_engine_prints(r) == ~(r.t = "Result" /\ r.v = NothingRun)

Init ==
    /\ input_data \in RunSpecs
    /\ InitRest

\* the invocations of Spec filter the inventory to one host
Next ==
    \/ \E n \in SingleHosts : MainCompare({n})
    \/ \E n \in SingleHosts : MainNonCompare({n})
    \/ Tick
    \/ \E n \in HostNames : CmdEngine(n)

Spec == Init /\ [][Next]_vars

\* the invocations of SpecPair run two hosts of the inventory: nornir runs
\* cmd_engine for each of them in a thread of its own, so that their
\* sub-operations interleave
\* time passes between two invocations
TickIdle ==
    /\ \A n \in HostNames : Finished(n)
    /\ Tick

NextPair ==
    \/ MainCompare(PairHosts)
    \/ MainNonCompare(PairHosts)
    \/ TickIdle
    \/ \E n \in HostNames : CmdEngine(n)

InitPair ==
    /\ input_data \in PairSpecs
    /\ InitRest

SpecPair == InitPair /\ [][NextPair]_vars

-----------------------------------------------------------------------------
(* Resolution claims, checked under SpecResolve *)

Range(s) == { s[i] : i \in 1..Len(s) }

RECURSIVE Flatten(_)
Flatten(ss) == IF ss = <<>> THEN <<>> ELSE Head(ss) \o Flatten(Tail(ss))

\* equality of two strings ignoring letter case, character by character
SameLetter(x, y) ==
    \/ x = y
    \/ <<x, y>> \in {<<"R", "r">>, <<"C", "c">>, <<"E", "e">>, <<"O", "o">>}
    \/ <<y, x>> \in {<<"R", "r">>, <<"C", "c">>, <<"E", "e">>, <<"O", "o">>}

CaseEq(a, b) ==
    /\ Len(a) = Len(b)
    /\ \A i \in 1..Len(a) : SameLetter(SubSeq(a, i, i), SubSeq(b, i, i))

KeyIsHost(key, host) == CaseEq(key, host.name) \/ CaseEq(key, host.hostname)

MatchingGroups(spec, host) ==
    IF "groups" \in DOMAIN spec
      THEN SelectSeq(spec["groups"], LAMBDA e : e.k \in host.groups)
      ELSE <<>>

MatchingHosts(spec, host) ==
    IF "hosts" \in DOMAIN spec
      THEN SelectSeq(spec["hosts"], LAMBDA e : KeyIsHost(e.k, host))
      ELSE <<>>

\* the leaves that apply to a host: all, its groups, its host entries
Layers(spec, host) ==
    LET g == MatchingGroups(spec, host)
        h == MatchingHosts(spec, host)
    IN (IF "all" \in DOMAIN spec THEN <<spec["all"]>> ELSE <<>>)
         \o [i \in 1..Len(g) |-> g[i].v]
         \o [i \in 1..Len(h) |-> h[i].v]

LayerLists(spec, host, key) ==
    LET ls == Layers(spec, host)
    IN Flatten([i \in 1..Len(ls) |-> Get(ls[i], key, <<>>)])

Resolved(n) == pc[n] = "resolved"

\* C1: each resolved print / vital / detail sequence is the concatenation of
\* the all leaf's list, the lists of every group the device is a member of
\* (declaration order) and the lists of every matching host entry
\* (declaration order); nothing else contributes and duplicates are kept.
C1_ResolutionOrder ==
    \A n \in HostNames :
        Resolved(n) =>
            /\ cmds[n].print = LayerLists(input_data, Host(n), "cmd_print")
            /\ cmds[n].vital = LayerLists(input_data, Host(n), "cmd_vital")
            /\ cmds[n].detail = LayerLists(input_data, Host(n), "cmd_detail")

\* a device resolved from all, two matching groups after a non-matching one
\* is skipped, and a matching host entry, with a duplicated command
C1_Witness ==
    /\ Resolved("R1")
    /\ "all" \in DOMAIN input_data
    /\ Len(MatchingGroups(input_data, Host("R1"))) = 2
    /\ Len(MatchingHosts(input_data, Host("R1"))) >= 1
    /\ Len(cmds["R1"].vital) > Cardinality(Range(cmds["R1"].vital))

\* C2: a hosts entry contributes its commands if and only if its key equals,
\* ignoring case, the display name or the hostname of the device.
C2_HostMatch ==
    \A n \in HostNames :
        (Resolved(n) /\ "hosts" \in DOMAIN input_data) =>
            \A i \in 1..Len(input_data["hosts"]) :
                LET e == input_data["hosts"][i]
                IN ("show p " \o e.k) \in Range(cmds[n].print)
                     <=> KeyIsHost(e.k, Host(n))

\* an entry whose key matches the hostname only, in another letter case,
\* contributes, next to an entry that matches neither identifier
C2_Witness ==
    /\ Resolved("R1")
    /\ "hosts" \in DOMAIN input_data
    /\ "show p CORE1" \in Range(cmds["R1"].print)
    /\ \E i \in 1..Len(input_data["hosts"]) : input_data["hosts"][i].k = "R10"
    /\ "show p R10" \notin Range(cmds["R1"].print)

AnyLayerSetsRunCfg(spec, host) ==
    \E i \in 1..Len(Layers(spec, host)) :
        Get(Layers(spec, host)[i], "run_cfg", FALSE)

\* C3: the resolved config category is ["show running-config"] if at least
\* one contributing layer sets run_cfg, whatever their number, and a falsy
\* value that is no command list otherwise.
C3_RunCfgOr ==
    \A n \in HostNames :
        Resolved(n) =>
            IF AnyLayerSetsRunCfg(input_data, Host(n))
              THEN cmds[n].run_cfg = PyList(<<"show running-config">>)
              ELSE cmds[n].run_cfg.t # "list" /\ ~Truthy(cmds[n].run_cfg)

\* three or more contributing layers set run_cfg, the last one does not
C3_Witness ==
    /\ Resolved("R1")
    /\ Cardinality({ i \in 1..Len(Layers(input_data, Host("R1"))) :
                       Get(Layers(input_data, Host("R1"))[i], "run_cfg", FALSE) }) >= 3
    /\ ~Get(Layers(input_data, Host("R1"))[Len(Layers(input_data, Host("R1")))],
            "run_cfg", FALSE)
    /\ cmds["R1"].run_cfg = PyList(<<"show running-config">>)

-----------------------------------------------------------------------------
(* Run claims, checked under Spec *)

Done(n) == pc[n] = "done"

PastPreamble(n) == pc[n] \notin {"idle", "start", "organise", "run_cfg"}

\* s.split("\n")
RECURSIVE Lines(_)
Lines(s) ==
    IF Occurrences(s, "\n") = {} THEN <<s>>
    ELSE LET i == SetMin(Occurrences(s, "\n"))
         IN <<SubSeq(s, 1, i - 1)>> \o Lines(SubSeq(s, i + 1, Len(s)))

EventsOf(n, op, cat) == SelectSeq(log[n], LAMBDA e : e.op = op /\ e.cat = cat)

EventsOp(n, op) == SelectSeq(log[n], LAMBDA e : e.op = op)

\* the time stamps of the snapshots: the day before and every minute of the clock
Stamps == {"20231231-2359"} \cup { Strftime(now) : now \in 0..MaxClock + 1 }

SnapshotName(n, cat, stamp) == n \o "_" \o cat \o "_" \o stamp \o ".txt"

IsSnapshotPath(p, n, cat) ==
    \E stamp \in Stamps : p = OutputFldr \o "/" \o SnapshotName(n, cat, stamp)

\* the snapshots of a host and category in the output folder
Snapshots(n, cat) == { p \in DOMAIN files : IsSnapshotPath(p, n, cat) }

\* a report line that is the outcome of an auto-diff of a category
IsAutoDiffLine(line, n, cat) ==
    \/ StartsWith(line, "[OK] Created compare HTML file '" \o OutputFldr \o "/"
                          \o n \o "_diff_" \o cat \o "_")
    \/ /\ StartsWith(line, "[X] Only ")
       /\ Occurrences(line, "'" \o OutputFldr \o "/" \o n \o "_" \o cat \o "*'") # {}

AutoDiffLines(n, cat) == SelectSeq(result[n], LAMBDA l : IsAutoDiffLine(l, n, cat))

\* the paths a step creates or rewrites
Touched == { p \in DOMAIN files' : p \notin DOMAIN files \/ files'[p] # files[p] }

IsSnapshotOfCat(p, cat) == \E n \in HostNames : IsSnapshotPath(p, n, cat)

Rank(e) ==
    CASE e.cat = "config" /\ e.op # "diff" -> 0
      [] e.cat = "print" -> 1
      [] e.cat = "vital" /\ e.op = "exec" -> 2
      [] e.cat = "vital" /\ e.op = "write" -> 3
      [] e.cat = "detail" /\ e.op = "exec" -> 4
      [] e.cat = "detail" /\ e.op = "write" -> 5
      [] e.cat = "vital" /\ e.op = "diff" -> 6
      [] e.cat = "config" /\ e.op = "diff" -> 7
      [] OTHER -> 8

InRankOrder(n) ==
    \A i \in 1..Len(log[n]) : \A j \in i..Len(log[n]) :
        Rank(log[n][i]) <= Rank(log[n][j])

\* the list of a category is run, command by command, and saved once if it
\* is not empty
RunAndSaved(n, cat, cmd) ==
    /\ EventsOf(n, "exec", cat) = [i \in 1..Len(cmd) |-> ExecEvent(cat, cmd[i])]
    /\ Len(EventsOf(n, "write", cat)) = (IF Len(cmd) = 0 THEN 0 ELSE 1)
    /\ \A i \in 1..Len(EventsOf(n, "write", cat)) :
          /\ IsSnapshotPath(EventsOf(n, "write", cat)[i].a, n, cat)
          /\ EventsOf(n, "write", cat)[i].a \in DOMAIN files

\* an auto-diff that found two snapshots took the two newest of the category
DiffedNewestTwo(n, cat) ==
    \A i \in 1..Len(EventsOf(n, "diff", cat)) :
        LET e == EventsOf(n, "diff", cat)[i]
        IN /\ e.a \in Snapshots(n, cat) /\ e.b \in Snapshots(n, cat)
           /\ StrLess(e.a, e.b)
           /\ \A p \in Snapshots(n, cat) \ {e.a, e.b} : StrLess(p, e.a)
           /\ e.c \in DOMAIN files

\* C5: post_test runs the print list, runs and saves the vital list,
\* auto-diffs the two newest vital snapshots and, if and only if run_cfg was
\* set, auto-diffs the two newest config snapshots, in this order; the
\* detail list is never run or saved.
C5_Finished ==
    \A n \in HostNames :
        (Done(n) /\ run_type = "post_test") =>
            /\ InRankOrder(n)
            /\ EventsOf(n, "exec", "print")
                 = [i \in 1..Len(cmds[n].print) |-> ExecEvent("print", cmds[n].print[i])]
            /\ RunAndSaved(n, "vital", cmds[n].vital)
            /\ Len(AutoDiffLines(n, "vital")) = 1
            /\ Len(EventsOf(n, "diff", "vital")) <= 1
            /\ DiffedNewestTwo(n, "vital")
            /\ Len(AutoDiffLines(n, "config"))
                 = (IF Truthy(cmds[n].run_cfg) THEN 1 ELSE 0)
            /\ Len(EventsOf(n, "diff", "config")) <= Len(AutoDiffLines(n, "config"))
            /\ DiffedNewestTwo(n, "config")
            /\ EventsOf(n, "exec", "detail") = <<>>
            /\ EventsOf(n, "write", "detail") = <<>>

\* no step of a post_test run creates or rewrites a detail snapshot
C5_Step ==
    run_type = "post_test" => \A p \in Touched : ~IsSnapshotOfCat(p, "detail")

C5_PostTest == []C5_Finished /\ [][C5_Step]_vars

\* a post_test run with every sub-operation: print, vital, both diffs made
C5_Witness ==
    \E n \in HostNames :
        /\ Done(n)
        /\ run_type = "post_test"
        /\ cmds[n].detail # <<>>
        /\ EventsOf(n, "exec", "print") # <<>>
        /\ Len(EventsOf(n, "diff", "vital")) = 1
        /\ Len(EventsOf(n, "diff", "config")) = 1

\* a post_test run without run_cfg whose vital auto-diff was made
C5_WitnessNoCfg ==
    \E n \in HostNames :
        /\ Done(n)
        /\ run_type = "post_test"
        /\ ~Truthy(cmds[n].run_cfg)
        /\ Len(EventsOf(n, "diff", "vital")) = 1

\* C6: pre_test runs the print list, runs and saves the vital list, runs and
\* saves the detail list, in this order, and never creates a diff.
C6_Finished ==
    \A n \in HostNames :
        (Done(n) /\ run_type = "pre_test") =>
            /\ InRankOrder(n)
            /\ EventsOf(n, "exec", "print")
                 = [i \in 1..Len(cmds[n].print) |-> ExecEvent("print", cmds[n].print[i])]
            /\ RunAndSaved(n, "vital", cmds[n].vital)
            /\ RunAndSaved(n, "detail", cmds[n].detail)
            /\ EventsOp(n, "diff") = <<>>
            /\ AutoDiffLines(n, "vital") = <<>>
            /\ AutoDiffLines(n, "config") = <<>>

\* no step of a pre_test run creates or rewrites an HTML file
C6_Step ==
    run_type = "pre_test" => \A p \in Touched : Occurrences(p, ".html") = {}

C6_PreTest == []C6_Finished /\ [][C6_Step]_vars

\* a pre_test run with commands in every category, after an earlier run left
\* a vital snapshot of the host
C6_Witness ==
    \E n \in HostNames :
        /\ Done(n)
        /\ run_type = "pre_test"
        /\ Len(EventsOf(n, "write", "vital")) = 1
        /\ Len(EventsOf(n, "write", "detail")) = 1
        /\ EventsOf(n, "exec", "print") # <<>>
        /\ Cardinality(Snapshots(n, "vital")) >= 2

\* text is, for each command of cmd in order, a banner line "==== <command> "
\* filled up with "=" characters, then the text the session returned for the
\* command, then an empty line and two blank lines
RECURSIVE HoldsBlocks(_, _, _, _)
HoldsBlocks(text, n, cmd, v) ==
    IF cmd = <<>> THEN text = ""
    ELSE LET start == "==== " \o Head(cmd) \o " "
             rest == SubSeq(text, Len(start) + 1, Len(text))
             eol == SetMin(Occurrences(rest, "\n"))
             body == SessionOutput(n, Head(cmd), v) \o "\n\n\n"
             after == SubSeq(rest, eol + 1, Len(rest))
         IN /\ StartsWith(text, start)
            /\ Occurrences(rest, "\n") # {}
            /\ SubSeq(rest, 1, eol - 1) = Equals(eol - 1)
            /\ StartsWith(after, body)
            /\ HoldsBlocks(SubSeq(after, Len(body) + 1, Len(after)), n, Tail(cmd), v)

\* C7: a vital (detail) run with a non-empty list of that category runs
\* exactly that list, writes exactly one snapshot of that category holding
\* each command's banner and returned text, records its path in the report,
\* runs no print command and no command of the other category, makes no diff.
C7_Finished ==
    \A n \in HostNames :
        (Done(n) /\ run_type \in {"vital", "detail"}
                 /\ Len(cmds[n][run_type]) # 0) =>
            LET cmd == cmds[n][run_type]
                other == IF run_type = "vital" THEN "detail" ELSE "vital"
                writes == EventsOf(n, "write", run_type)
            IN /\ RunAndSaved(n, run_type, cmd)
               /\ HoldsBlocks(files[writes[1].a], n, cmd, runs)
               /\ \E i \in 1..Len(Lines(ret[n].v)) :
                     Lines(ret[n].v)[i] = SavedMsg(writes[1].a)
               /\ EventsOf(n, "exec", "print") = <<>>
               /\ EventsOf(n, "exec", other) = <<>>
               /\ EventsOf(n, "write", other) = <<>>
               /\ EventsOp(n, "diff") = <<>>

\* a step of a vital (detail) run creates or rewrites no file but a snapshot
\* of that category or of the running configuration
C7_Step ==
    run_type \in {"vital", "detail"} =>
        \A p \in Touched : IsSnapshotOfCat(p, run_type) \/ IsSnapshotOfCat(p, "config")

C7_SaveRun == []C7_Finished /\ [][C7_Step]_vars

\* a detail run of a host that also has print and vital commands and run_cfg
C7_Witness ==
    \E n \in HostNames :
        /\ Done(n)
        /\ run_type = "detail"
        /\ cmds[n].detail # <<>>
        /\ cmds[n].vital # <<>>
        /\ cmds[n].print # <<>>
        /\ Truthy(cmds[n].run_cfg)
        /\ Len(EventsOf(n, "write", "detail")) = 1

\* C8: a compare run of two existing files runs no device command, writes no
\* snapshot, diffs exactly the two files (first as pre, second as post) and
\* reports the diff artifact it created.
C8_Compare ==
    \A n \in HostNames :
        (run_type = "compare" /\ pc[n] \in {"done", "failed"}) =>
            /\ EventsOp(n, "exec") = <<>>
            /\ EventsOp(n, "write") = <<>>
            /\ Len(log[n]) = 1
            /\ log[n][1].op = "diff"
            /\ log[n][1].a = data["cmp_file1"].v
            /\ log[n][1].b = data["cmp_file2"].v
            /\ log[n][1].c \in DOMAIN files
            /\ ret[n].t = "Result"
            /\ ret[n].v = DiffMsg(log[n][1].c)

\* C9: the report returned by cmd_engine has no line equal to "empty".
C9_NoEmptyLine ==
    \A n \in HostNames :
        (Done(n) /\ ret[n].t = "Result") =>
            \A i \in 1..Len(Lines(ret[n].v)) : Lines(ret[n].v)[i] # "empty"

NothingResolved(n) ==
    /\ cmds[n].print = <<>>
    /\ cmds[n].vital = <<>>
    /\ cmds[n].detail = <<>>
    /\ ~Truthy(cmds[n].run_cfg)

\* C10: pre_test on a host with no resolved command in any category returns
\* a report that is the "no commands" warning line alone and writes no file.
C10_PreTestNothing ==
    \A n \in HostNames :
        (Done(n) /\ run_type = "pre_test" /\ NothingResolved(n)) =>
            /\ ret[n].t = "Result"
            /\ ret[n].v = WarnMsg("print, vital, detail, config")
            /\ EventsOp(n, "write") = <<>>
            /\ EventsOp(n, "diff") = <<>>

\* what a caller can tell from a report: cmd_engine returned None, or the
\* text task_engine tests for
IsSentinel(r) == r.t = "None" \/ (r.t = "Result" /\ r.v = "Nothing run")

\* C11: a device with nothing resolved in any category yields the "nothing
\* to run" sentinel and its output is not printed; a device for which at
\* least one command was executed never yields the sentinel.
C11_NothingRunSentinel ==
    \A n \in HostNames :
        (Done(n) /\ run_type # "compare") =>
            /\ NothingResolved(n) =>
                  IsSentinel(ret[n]) /\ ~task_engine_prints(ret[n])
            /\ EventsOp(n, "exec") # <<>> => ~IsSentinel(ret[n])

Categories == {"config", "vital", "detail"}

IsSnapshot(p) == \E n \in HostNames, cat \in Categories : IsSnapshotPath(p, n, cat)

\* C12: a snapshot that exists is still there, with the same content, after
\* every step of every run.
C12_SnapshotsImmutable ==
    [][\A p \in DOMAIN files :
          IsSnapshot(p) => p \in DOMAIN files' /\ files'[p] = files[p]]_vars

\* minute a time stamp was taken at, counted like the clock
StampTime(stamp) ==
    IF stamp = "20231231-2359" THEN 0 - 1
    ELSE CHOOSE now \in 0..MaxClock + 1 : Strftime(now) = stamp

\* minute the snapshot p of host n and category cat was written at
SnapshotTime(p, n, cat) ==
    StampTime(CHOOSE stamp \in Stamps :
                p = OutputFldr \o "/" \o SnapshotName(n, cat, stamp))

\* the latest of the snapshots S of host n and category cat
Newest(S, n, cat) ==
    CHOOSE p \in S : \A q \in S : SnapshotTime(q, n, cat) <= SnapshotTime(p, n, cat)

\* the step of host n that leaves the position `at`
Leaves(n, at) == pc[n] = at /\ pc'[n] # at

Last(s) == s[Len(s)]

\* the order of the names of the snapshots of a host and category is the
\* order of the minutes they were written at
C13_Order(n, cat) ==
    \A p \in Snapshots(n, cat), q \in Snapshots(n, cat) :
        StrLess(p, q) <=> SnapshotTime(p, n, cat) < SnapshotTime(q, n, cat)

\* an auto-diff that starts with two or more snapshots of the category diffs
\* the second newest (pre) against the newest (post)
C13_Step(n, cat, at) ==
    (Leaves(n, at) /\ Cardinality(Snapshots(n, cat)) >= 2) =>
        LET newest == Newest(Snapshots(n, cat), n, cat)
            second == Newest(Snapshots(n, cat) \ {newest}, n, cat)
        IN /\ C13_Order(n, cat)
           /\ Len(log'[n]) = Len(log[n]) + 1
           /\ Last(log'[n]).op = "diff"
           /\ Last(log'[n]).cat = cat
           /\ Last(log'[n]).a = second
           /\ Last(log'[n]).b = newest

C14_Step(n, cat, at) ==
    (Leaves(n, at) /\ Cardinality(Snapshots(n, cat)) < 2) =>
        /\ pc'[n] # "failed"
        /\ ret'[n].t # "raise"
        /\ files' = files
        /\ log'[n] = log[n]
        /\ Len(result'[n]) = Len(result[n]) + 1
        /\ SubSeq(result'[n], 1, Len(result[n])) = result[n]
        /\ StartsWith(Last(result'[n]), "[X]")
        /\ Occurrences(Last(result'[n]),
                       " " \o Digit(Cardinality(Snapshots(n, cat))) \o " file") # {}
        /\ Occurrences(Last(result'[n]),
                       "'" \o OutputFldr \o "/" \o n \o "_" \o cat \o "*'") # {}

\* C14: an auto-diff with zero or one matching snapshot returns a failure
\* message with the number of matched files and the pattern; it does not
\* raise and creates no diff artifact.
C14_InsufficientMessage ==
    [][\A n \in SingleHosts :
          /\ C14_Step(n, "vital", "post_vital")
          /\ C14_Step(n, "config", "post_config")]_vars

\* a post_test run whose vital auto-diff matched no file and whose config
\* auto-diff matched one
C14_Witness ==
    \E n \in HostNames :
        /\ Done(n)
        /\ run_type = "post_test"
        /\ \E i \in 1..Len(result[n]) : StartsWith(result[n][i], "[X] Only 0 file")
        /\ \E i \in 1..Len(result[n]) : StartsWith(result[n][i], "[X] Only 1 file")
        /\ EventsOp(n, "diff") = <<>>

\* the files the glob of an auto-diff of host n and category cat matches
Matched(n, cat) == Glob(files, OutputFldr, n \o "_" \o cat)

\* the report line of an auto-diff of host n and category cat that failed
IsFailureLine(line, n, cat) ==
    /\ StartsWith(line, "[X] Only ")
    /\ Occurrences(line, "'" \o OutputFldr \o "/" \o n \o "_" \o cat \o "*'") # {}

FailureLines(lines, n, cat) == SelectSeq(lines, LAMBDA l : IsFailureLine(l, n, cat))

\* a vital auto-diff that matches fewer than two files adds its failure line
\* and goes on with the next sub-operation; the runs of the other hosts are
\* where they were
C15_Step(n) ==
    (Leaves(n, "post_vital") /\ Cardinality(Matched(n, "vital")) < 2) =>
        /\ pc'[n] = (IF Truthy(cmds[n].run_cfg) THEN "post_config" ELSE "report")
        /\ IsFailureLine(Last(result'[n]), n, "vital")
        /\ \A m \in HostNames \ {n} :
              /\ pc'[m] = pc[m]
              /\ result'[m] = result[m]
              /\ ret'[m] = ret[m]
              /\ log'[m] = log[m]

\* a finished post_test run whose vital auto-diff failed reports the failure
\* in one line, then the outcome of the config auto-diff if run_cfg was set,
\* then the warning if a category was empty
C15_Finished ==
    \A n \in HostNames :
        (Done(n) /\ run_type = "post_test"
                 /\ FailureLines(result[n], n, "vital") # <<>>) =>
            LET report == Lines(ret[n].v)
                at == CHOOSE i \in 1..Len(report) : IsFailureLine(report[i], n, "vital")
            IN /\ ret[n].t = "Result"
               /\ Len(FailureLines(report, n, "vital")) = 1
               /\ Truthy(cmds[n].run_cfg) =>
                     /\ Len(report) > at
                     /\ IsAutoDiffLine(report[at + 1], n, "config")
               /\ (\E cat \in {"print", "vital", "detail"} : cmds[n][cat] = <<>>) =>
                     StartsWith(Last(report), "[!]  There were no commands to run for: ")

\* no run of a post_test invocation ends with an exception
C15_NoneFails == run_type = "post_test" => \A n \in HostNames : pc[n] # "failed"

\* C15: a vital auto-diff that finds fewer than two snapshots is reported as
\* one line of the device's report; the config auto-diff (when run_cfg is
\* set), the warning and the report are still made, and the runs of the
\* other devices are not affected.
C15_InsufficientNonFatal ==
    /\ [](C15_Finished /\ C15_NoneFails)
    /\ [][\A n \in HostNames : C15_Step(n)]_vars

\* two devices run post_test side by side: the vital auto-diff of one fails,
\* its config auto-diff and warning follow, and the vital auto-diff of the
\* other is made
C15_Witness ==
    /\ run_type = "post_test"
    /\ Done("R1") /\ Done("R1_vital")
    /\ Len(FailureLines(Lines(ret["R1_vital"].v), "R1_vital", "vital")) = 1
    /\ Len(AutoDiffLines("R1_vital", "config")) = 1
    /\ StartsWith(Last(Lines(ret["R1_vital"].v)), "[!]")
    /\ Len(EventsOf("R1", "diff", "vital")) = 1

\* the paths the run of host n has written: snapshots and diff artifacts
PathsWritten(n) ==
    { log[n][i].a : i \in { j \in 1..Len(log[n]) : log[n][j].op = "write" } }
      \cup { log[n][i].c : i \in { j \in 1..Len(log[n]) : log[n][j].op = "diff" } }

\* C16: the runs of two different devices in one invocation write no file
\* under the same path.
C16_NoPathCollision ==
    \A n \in HostNames, m \in HostNames :
        n # m => PathsWritten(n) \cap PathsWritten(m) = {}

\* the banner lines of a text
BannerLines(text) == SelectSeq(Lines(text), LAMBDA l : StartsWith(l, "==== "))

\* C17: every banner line of a snapshot written by a run is 80 characters wide.
C17_BannerWidth ==
    \A n \in HostNames :
        \A i \in 1..Len(EventsOp(n, "write")) :
            LET text == files[EventsOp(n, "write")[i].a]
            IN \A j \in 1..Len(BannerLines(text)) : Len(BannerLines(text)[j]) = 80

\* C18: the artifact of a diff whose pre file is the snapshot
\* <device>_<category>_<timestamp>.txt of a device is written to the output
\* folder under the name <device>_diff_<category>_<timestamp of the diff>.html.
C18_DiffArtifactName ==
    \A n \in HostNames :
        \A i \in 1..Len(EventsOp(n, "diff")) :
            LET e == EventsOp(n, "diff")[i]
            IN \A device \in HostNames :
                  IsSnapshotPath(e.a, device, e.cat) =>
                      \E stamp \in Stamps :
                          e.c = OutputFldr \o "/" \o device \o "_diff_" \o e.cat
                                  \o "_" \o stamp \o ".html"

\* a finished print run has run its print list and nothing else but the
\* running configuration, and has made no diff
C19_Finished ==
    \A n \in HostNames :
        (Done(n) /\ run_type = "print") =>
            /\ EventsOf(n, "exec", "print") = ExecEvents("print", cmds[n].print)
            /\ EventsOf(n, "exec", "vital") = <<>>
            /\ EventsOf(n, "exec", "detail") = <<>>
            /\ EventsOp(n, "diff") = <<>>
            /\ \A i \in 1..Len(EventsOp(n, "write")) :
                  EventsOp(n, "write")[i].cat = "config"

\* a step of a print run creates or rewrites no file but a config snapshot,
\* and the file holds the text of no print command
C19_Step ==
    run_type = "print" =>
        \A p \in Touched :
            /\ IsSnapshotOfCat(p, "config")
            /\ \A n \in HostNames : \A i \in 1..Len(cmds[n].print) :
                  Occurrences(files'[p], SessionOutput(n, cmds[n].print[i], runs)) = {}

\* C19: a print run executes the print list for display only: it writes no
\* output of a print command to a file, executes no vital or detail command
\* and creates no diff; the only file it may write is the config snapshot.
C19_PrintOnly == []C19_Finished /\ [][C19_Step]_vars

\* a print run of a host with commands in every category and run_cfg set
C19_Witness ==
    \E n \in HostNames :
        /\ Done(n)
        /\ run_type = "print"
        /\ EventsOf(n, "exec", "print") # <<>>
        /\ cmds[n].vital # <<>>
        /\ cmds[n].detail # <<>>
        /\ Len(EventsOf(n, "write", "config")) = 1

\* a section of the document that is a mapping
HasMapping(doc) ==
    /\ doc.t = "dict"
    /\ \E key \in {"hosts", "groups", "all"} :
          key \in DOMAIN doc.v /\ doc.v[key].t = "dict"

Validated == outcome.status # "none"

\* C20: a document is accepted if and only if one of its hosts, groups, all
\* values is a mapping; an empty document is rejected as empty and a
\* document without such a mapping is rejected, both by ending the
\* invocation with an error that names the file.
C20_ValInputFile ==
    Validated =>
        /\ outcome.status = "accepted" <=> HasMapping(input_data)
        /\ ~HasMapping(input_data) =>
              /\ outcome.status = "exit"
              /\ outcome.code # 0
              /\ Occurrences(outcome.out, PathJoin(WorkingDir, INPUT_CMD_FILE)) # {}
        /\ input_data.t = "None" => Occurrences(outcome.out, " is empty") # {}
        /\ (input_data.t = "dict" /\ ~HasMapping(input_data)) =>
              Occurrences(outcome.out, " is empty") = {}

\* a document rejected although every section is present, none of them a
\* mapping, next to another key that is one
C20_Witness ==
    /\ Validated
    /\ outcome.status = "exit"
    /\ input_data.t = "dict"
    /\ DOMAIN input_data.v = DocKeys
    /\ input_data.v["foo"].t = "dict"
    /\ input_data.v["hosts"].t = "list"
    /\ input_data.v["groups"].t = "None"
    /\ input_data.v["all"].t = "str"

-----------------------------------------------------------------------------
(* The warning line of the pre_test and post_test reports, checked under   *)
(* Spec                                                                    *)

\* the categories for which host n has no command
EmptyCategories(n) ==
    { cat \in {"print", "vital", "detail"} : cmds[n][cat] = <<>> }
      \cup (IF Truthy(cmds[n].run_cfg) THEN {} ELSE {"config"})

IsWarningLine(line) == StartsWith(line, "[!]")

WarningLines(text) == SelectSeq(Lines(text), IsWarningLine)

\* C23: the report of a pre_test or post_test run ends with exactly one
\* warning line if and only if one of the categories print, vital, detail,
\* config has no command, and the line names exactly the categories without
\* command; the report of no other run type has a warning line; the warning
\* keeps no sub-operation of the run from being performed.
C23_WarningLine ==
    \A n \in HostNames :
        Done(n) =>
            LET text == IF ret[n].t = "Result" THEN ret[n].v ELSE ""
                warn == WarningLines(text)
                expected == run_type \in {"pre_test", "post_test"}
                              /\ EmptyCategories(n) # {}
            IN /\ Len(warn) = (IF expected THEN 1 ELSE 0)
               /\ expected =>
                     /\ Last(Lines(text)) = warn[1]
                     /\ \A cat \in {"print", "vital", "detail", "config"} :
                           (Occurrences(warn[1], cat) # {}) <=> cat \in EmptyCategories(n)
                     /\ EventsOf(n, "exec", "print") = ExecEvents("print", cmds[n].print)
                     /\ EventsOf(n, "exec", "vital") = ExecEvents("vital", cmds[n].vital)
                     /\ run_type = "pre_test" =>
                           EventsOf(n, "exec", "detail")
                             = ExecEvents("detail", cmds[n].detail)
                     /\ run_type = "post_test" =>
                           Len(AutoDiffLines(n, "vital")) = 1

\* a post_test run of a host with vital commands only: the vital snapshots
\* were compared and the report ends with the warning for the three other
\* categories
C23_Witness ==
    \E n \in HostNames :
        /\ Done(n)
        /\ run_type = "post_test"
        /\ EmptyCategories(n) = {"print", "detail", "config"}
        /\ Len(EventsOf(n, "diff", "vital")) = 1
        /\ Len(Lines(ret[n].v)) = 3
        /\ IsWarningLine(Last(Lines(ret[n].v)))

-----------------------------------------------------------------------------
(* run_cmds, run_print_cmd and run_save_cmd step by step, checked under    *)
(* Spec                                                                    *)

\* the events a step adds to the history of host n
NewEvents(n) == SubSeq(log'[n], Len(log[n]) + 1, Len(log'[n]))

\* the step is a call of run_print_cmd with the list cmd
C25_Print(n, cmd) ==
    /\ Len(NewEvents(n)) = Len(cmd)
    /\ \A i \in 1..Len(cmd) :
          NewEvents(n)[i].op = "exec" /\ NewEvents(n)[i].a = cmd[i]
    /\ files' = files

\* the step is a call of run_save_cmd with the list cmd
C25_Save(n, cmd) ==
    IF cmd = <<>>
      THEN /\ NewEvents(n) = <<>>
           /\ files' = files
           /\ result'[n] = Append(result[n], "empty")
      ELSE /\ Len(NewEvents(n)) = Len(cmd) + 1
           /\ \A i \in 1..Len(cmd) :
                 NewEvents(n)[i].op = "exec" /\ NewEvents(n)[i].a = cmd[i]
           /\ NewEvents(n)[Len(cmd) + 1].op = "write"
           /\ HoldsBlocks(files'[NewEvents(n)[Len(cmd) + 1].a], n, cmd, runs)

C25_Step ==
    \A n \in HostNames :
        pc'[n] # pc[n] =>
            CASE pc[n] = "branch" /\ run_type \in {"vital", "detail"} ->
                   C25_Save(n, cmds[n][run_type])
              [] pc[n] = "branch" /\ run_type \in {"print", "pre_test", "post_test"} ->
                   C25_Print(n, cmds[n].print)
              [] pc[n] = "pp_vital" -> C25_Save(n, cmds[n].vital)
              [] pc[n] = "pre_detail" -> C25_Save(n, cmds[n].detail)
              [] OTHER -> TRUE

\* C25: run_cmds sends the commands of its list one after the other in list
\* order, each one once, and the text it returns holds the banner and
\* output of each command in the same order; with an empty list
\* run_print_cmd and run_save_cmd send no command, and run_save_cmd writes
\* no file and returns "empty".
C25_RunCmds == [][C25_Step]_vars

\* a vital run that has sent the two commands of its list and saved their
\* output in one snapshot
C25_Witness ==
    \E n \in HostNames :
        /\ Done(n)
        /\ run_type = "vital"
        /\ Len(cmds[n].vital) = 2
        /\ cmds[n].vital[1] # cmds[n].vital[2]
        /\ Len(EventsOf(n, "exec", "vital")) = 2
        /\ Len(EventsOf(n, "write", "vital")) = 1
        /\ HoldsBlocks(files[EventsOf(n, "write", "vital")[1].a], n, cmds[n].vital, runs)

-----------------------------------------------------------------------------
(* Resolution called again: organise_cmds called for the hosts in any      *)
(* order on one NornirCommands instance, twice for each host.              *)

\* the input specifications of the repeated resolution: at most one group
\* and one host entry
AgainSpecs ==
    { [k \in sel |->
         CASE k = "all" -> a
           [] k = "groups" -> g
           [] OTHER -> hs] :
        <<sel, a, g, hs>> \in
          (SUBSET {"all", "groups", "hosts"}) \X AllLeaves
            \X Sections(GroupKeys, 1) \X Sections(HostKeys, 1) }

InitAgain ==
    /\ input_data \in AgainSpecs
    /\ InitRest

\* the second call of organise_cmds for host n, on the same instance
ResolveAgain(n) ==
    /\ pc[n] = "resolved"
    /\ LET r == organise_cmds_on(nr_cmd, Host(n), input_data)
       IN /\ cmds' = [cmds EXCEPT ![n] = r.ret]
          /\ nr_cmd' = r.self
    /\ pc' = [pc EXCEPT ![n] = "resolved again"]
    /\ UNCHANGED <<dirs, outcome, input_data, run_type, data, clock, files, result, ret,
                   log, runs>>

NextAgain ==
    \/ \E n \in SingleHosts : Resolve(n)
    \/ \E n \in SingleHosts : ResolveAgain(n)

SpecAgain == InitAgain /\ [][NextAgain]_vars

\* a step that is the second call for host n
C24_Step ==
    \A n \in HostNames :
        (pc[n] = "resolved" /\ pc'[n] = "resolved again") =>
            /\ cmds'[n] = cmds[n]
            /\ input_data' = input_data
            /\ \A m \in HostNames \ {n} : cmds'[m] = cmds[m]

-----------------------------------------------------------------------------
(* The NornirCommands instance shared by the cmd_engine calls of one       *)
(* invocation: every invocation of SpecShared runs two hosts, nornir runs  *)
(* cmd_engine for each in a thread of its own on the one NornirEngine.     *)

NextShared ==
    \/ MainCompare(SingleHosts)
    \/ MainNonCompare(SingleHosts)
    \/ \E n \in HostNames : CmdEngine(n)

SpecShared == Init /\ [][NextShared]_vars

\* the command set host n resolves to when its cmd_engine call runs alone
Alone(n) == organise_cmds(Host(n), Get(data, "input_data", EmptyDict))

\* the list of a category in the command set of host n run alone
OwnList(n, cat) ==
    CASE cat = "config" ->
           IF Truthy(Alone(n).run_cfg) THEN Alone(n).run_cfg.v ELSE <<>>
      [] cat \in {"print", "vital", "detail"} -> Alone(n)[cat]
      [] OTHER -> <<>>

\* the lines of a report that tell of a saved snapshot
IsSavedLine(line) == StartsWith(line, "[OK] Created command output file '")

\* the snapshots of the categories in which host n, run alone, has commands
OwnSavedLines(n) ==
    { SavedMsg(OutputFldr \o "/" \o SnapshotName(n, cat, stamp)) :
        <<cat, stamp>> \in { c \in Categories : OwnList(n, c) # <<>> } \X Stamps }

\* C29: with the cmd_engine calls of two devices interleaved on the one
\* NornirEngine, each call reassigning self.nr_cmd, every device works with
\* the command set it resolves to when run alone: it sends no command and
\* reports no snapshot or empty category of another device's set.
C29_SharedInstance ==
    \A n \in HostNames :
        PastPreamble(n) \/ pc[n] = "run_cfg" =>
            /\ cmds[n] = Alone(n)
            /\ \A i \in 1..Len(log[n]) :
                  log[n][i].op = "exec" =>
                      log[n][i].a \in Range(OwnList(n, log[n][i].cat))
            /\ (Done(n) /\ ret[n].t = "Result") =>
                  \A i \in 1..Len(Lines(ret[n].v)) :
                      LET line == Lines(ret[n].v)[i]
                      IN /\ IsSavedLine(line) => line \in OwnSavedLines(n)
                         /\ IsWarningLine(line) =>
                               line = WarnMsg(JoinWith(", ", empty_result(Alone(n))))

\* one device is half way through its run, its vital snapshot saved, while
\* the shared attribute refers to the instance that holds the command set
\* of the other device, which differs
C29_Witness ==
    /\ pc["R1"] = "post_vital"
    /\ pc["r2"] = "run_cfg"
    /\ EventsOf("R1", "write", "vital") # <<>>
    /\ nr_cmd.has_cmds
    /\ nr_cmd.cmds = cmds["r2"]
    /\ cmds["r2"] # cmds["R1"]

-----------------------------------------------------------------------------
(* The files the auto-diff selects, checked under SpecPair *)

\* C28: the two files an auto-diff of a device and category compares are
\* snapshots of that device and that category: never a diff artifact, never
\* a snapshot of another device or of another category.
C28_AutoDiffSelects ==
    \A n \in HostNames :
        \A i \in 1..Len(EventsOp(n, "diff")) :
            LET e == EventsOp(n, "diff")[i]
            IN e.cat \in Categories =>
                  /\ IsSnapshotPath(e.a, n, e.cat)
                  /\ IsSnapshotPath(e.b, n, e.cat)

-----------------------------------------------------------------------------
(* Runs with the input file edited between two invocations: main() loads   *)
(* the file at every invocation (lines 288-289).                           *)

\* the user replaces the content of the input file by another valid one
EditInput ==
    /\ \A n \in HostNames : Finished(n)
    /\ runs > 0
    /\ input_data' \in RunSpecs \ {input_data}
    /\ UNCHANGED <<nr_cmd, dirs, outcome, run_type, data, clock, files, pc, cmds, result,
                   ret, log, runs>>

NextEdit ==
    \/ MainCompare({"R1"})
    \/ MainNonCompare({"R1"})
    \/ EditInput
    \/ TickIdle
    \/ \E n \in HostNames : CmdEngine(n)

SpecEdit == Init /\ [][NextEdit]_vars

\* C27: the artifact of the vital auto-diff of a post_test run compares the
\* vital snapshot the same run wrote, as post, with a snapshot written
\* before the run, as pre: never two snapshots that were both there before
\* the run, never a snapshot with itself.
C27_PostDiffInputs ==
    \A n \in HostNames :
        run_type = "post_test" =>
            \A i \in 1..Len(EventsOf(n, "diff", "vital")) :
                LET e == EventsOf(n, "diff", "vital")[i]
                    written == { EventsOf(n, "write", "vital")[j].a :
                                   j \in 1..Len(EventsOf(n, "write", "vital")) }
                IN /\ e.b \in written
                   /\ e.a \notin written
                   /\ e.a # e.b

-----------------------------------------------------------------------------
(* Load time: main() up to line 660.  compare_arg and noncompare_arg with  *)
(* the folders and files they test for, on a working directory that may    *)
(* not exist, may have no output folder yet, and may lack the input file   *)
(* or the files to compare.                                                *)

WdMissingMsg(rtype, working_dir) ==
    "[X] The '" \o rtype \o "' working directory " \o working_dir \o " does not exist"

MissingMsg(rtype, missing_files) ==
    "[X] The '" \o rtype \o "' file " \o JoinWith(", ", missing_files)
      \o " does not exist"

Accepted == [status |-> "accepted", code |-> 0, out |-> ""]

\* InputValidate._err_missing_files
_err_missing_files(rtype, missing_files) ==
    IF Len(missing_files) # 0 THEN SysExit(1, MissingMsg(rtype, missing_files))
    ELSE Accepted

\* InputValidate._get_output_fldr: how the call ends, the folder returned
\* and the directories after it
_get_output_fldr(rtype, file_path, ds) ==
    IF file_path \notin ds
      THEN [end |-> SysExit(1, WdMissingMsg(rtype, file_path)),
            output_fldr |-> "", dirs |-> ds]
      ELSE [end |-> Accepted,
            output_fldr |-> PathJoin(file_path, output_folder),
            dirs |-> ds \cup {PathJoin(file_path, output_folder)}]

\* the content of the input file once loaded by yaml
LoadDocuments ==
    { PyNone,
      PyDict(EmptyDict),
      PyDict([k \in {"foo"} |-> PyDict(EmptyDict)]),
      PyDict([k \in {"hosts"} |-> PyList(<<"R1">>)]),
      PyDict([k \in {"all"} |-> PyDict([j \in {"cmd_print"} |-> PyList(<<"show version">>)])]),
      PyDict([k \in {"groups", "hosts"} |->
                IF k = "groups" THEN PyDict(EmptyDict) ELSE PyNone]) }

InputFile == PathJoin(WorkingDir, INPUT_CMD_FILE)

\* the working directory with or without its output folder, input file and
\* files to compare, or no working directory at all
InitLoad ==
    /\ dirs \in {{}, {WorkingDir}, {WorkingDir, OutputFldr}}
    /\ \E present \in SUBSET {InputFile, "chg/pre.txt", "chg/post.txt"} :
          /\ WorkingDir \notin dirs => present = {}
          /\ files = [p \in present |-> IF p = InputFile THEN "yaml" ELSE "line1\n"]
    /\ IF InputFile \in DOMAIN files
         THEN input_data \in LoadDocuments ELSE input_data = PyNone
    /\ run_type = "none"
    /\ data = NoData
    /\ clock = 0
    /\ pc = [n \in HostNames |-> "idle"]
    /\ cmds = [n \in HostNames |-> NoCmds]
    /\ result = [n \in HostNames |-> <<>>]
    /\ ret = [n \in HostNames |-> NoRet]
    /\ log = [n \in HostNames |-> <<>>]
    /\ runs = 0
    /\ outcome = NoOutcome
    /\ nr_cmd = NoInstance

\* lines 285-290: the input file is tested for, loaded and validated
LoadInput(rtype, input_file) ==
    IF input_file \notin DOMAIN files
      THEN _err_missing_files(rtype, <<input_file>>)
      ELSE _val_input_file(rtype, input_file, input_data)

\* main() with one of the flags but compare, given a change directory:
\* noncompare_arg lines 282-294
LoadNonCompare ==
    /\ outcome.status = "none"
    /\ \E arg \in RunArgs \ {"compare"} :
          LET fldr == _get_output_fldr(arg, WorkingDir, dirs)
              end == IF fldr.end.status = "exit" THEN fldr.end
                     ELSE LoadInput(arg, InputFile)
          IN /\ run_type' = arg
             /\ dirs' = fldr.dirs
             /\ outcome' = end
             /\ data' = IF end.status = "accepted"
                          THEN noncompare_arg(input_data) ELSE data
    /\ UNCHANGED <<nr_cmd, input_data, clock, files, pc, cmds, result, ret, log, runs>>

\* main() with the print flag given the path of an input file:
\* noncompare_arg lines 277-279 and 285-294
LoadPrintFile ==
    /\ outcome.status = "none"
    /\ run_type' = "print"
    /\ outcome' = LoadInput("print", InputFile)
    /\ data' = IF outcome'.status = "accepted" THEN noncompare_arg(input_data) ELSE data
    /\ UNCHANGED <<nr_cmd, dirs, input_data, clock, files, pc, cmds, result, ret, log, runs>>

\* main() with the compare flag: compare_arg lines 258-270
LoadCompare ==
    /\ outcome.status = "none"
    /\ \E f1 \in CompareArgs : \E f2 \in CompareArgs \ {f1} :
          LET fldr == _get_output_fldr("compare", WorkingDir, dirs)
              missing_files ==
                  SelectSeq(<<PathJoin(WorkingDir, f1), PathJoin(WorkingDir, f2)>>,
                            LAMBDA cmp_file : cmp_file \notin DOMAIN files)
              end == IF fldr.end.status = "exit" THEN fldr.end
                     ELSE _err_missing_files("compare", missing_files)
          IN /\ run_type' = "compare"
             /\ dirs' = fldr.dirs
             /\ outcome' = end
             /\ data' = IF end.status = "accepted" THEN compare_arg(f1, f2) ELSE data
    /\ UNCHANGED <<nr_cmd, input_data, clock, files, pc, cmds, result, ret, log, runs>>

NextLoad ==
    \/ LoadNonCompare
    \/ LoadPrintFile
    \/ LoadCompare

SpecLoad == InitLoad /\ [][NextLoad]_vars

\* the input file is missing, empty or without a section that is a mapping
BadInput == InputFile \notin DOMAIN files \/ ~HasMapping(input_data)

\* a file to compare is missing
BadCompare == "chg/pre.txt" \notin DOMAIN files \/ "chg/post.txt" \notin DOMAIN files

C21_Step ==
    (outcome.status = "none" /\ outcome'.status # "none") =>
        ((IF run_type' = "compare" THEN BadCompare ELSE BadInput) =>
            /\ outcome'.status = "exit"
            /\ outcome'.code # 0
            /\ data' = data
            /\ pc' = pc /\ log' = log
            /\ files' = files
            /\ dirs' = dirs)

\* C21: an invocation whose input file is missing, empty or without a
\* structured section, or one of whose compare files is missing, ends with
\* an error before any device command is sent and without any change to
\* the filesystem.
C21_LoadFatal == [][C21_Step]_vars

-----------------------------------------------------------------------------
(* InputValidate._get_merge_val_files, called by val_arg for a change      *)
(* directory: the .yml files of the val_files folder are loaded in the     *)
(* order glob lists them, validated and merged.  In SpecMerge input_data   *)
(* is the list of the documents loaded, in that order.                     *)

val_files_folder == "val_files"
ValFilesFldr == PathJoin(WorkingDir, val_files_folder)

RECURSIVE always_merge(_, _)
\* faulty variant: a list is replaced by the list of the later document
always_merge_override(base, nxt) ==
    IF base.t = "dict" /\ nxt.t = "dict"
      THEN PyDict([k \in DOMAIN base.v \cup DOMAIN nxt.v |->
                     IF k \notin DOMAIN nxt.v THEN base.v[k]
                     ELSE IF k \notin DOMAIN base.v THEN nxt.v[k]
                     ELSE always_merge(base.v[k], nxt.v[k])])
    ELSE nxt

\* deepmerge's always_merger: two dicts are merged key by key, two lists
\* are appended, anything else is overridden by the later value
always_merge(base, nxt) ==
    IF base.t = "dict" /\ nxt.t = "dict"
      THEN PyDict([k \in DOMAIN base.v \cup DOMAIN nxt.v |->
                     IF k \notin DOMAIN nxt.v THEN base.v[k]
                     ELSE IF k \notin DOMAIN base.v THEN nxt.v[k]
                     ELSE always_merge(base.v[k], nxt.v[k])])
    ELSE IF base.t = "list" /\ nxt.t = "list" THEN PyList(base.v \o nxt.v)
    ELSE nxt

\* always_merger.merge(target, nxt) as a statement, lines 152 and 160: the
\* value returned is dropped, so that target changes only when it is
\* merged in place, both values being dicts
merge_in_place(target, nxt) ==
    IF target.t = "dict" /\ nxt.t = "dict" THEN always_merge(target, nxt) ELSE target

\* lines 155-160 for one section of a document
merge_section(target, section) ==
    PyDict([sec_name \in DOMAIN target.v \cup DOMAIN section.v |->
              IF sec_name \notin DOMAIN section.v THEN target.v[sec_name]
              ELSE IF sec_name \notin DOMAIN target.v THEN section.v[sec_name]
              ELSE merge_in_place(target.v[sec_name], section.v[sec_name])])

\* lines 150-160 for one document that has passed the validation
merge_document(acc, tmp_data) ==
    [key \in {"all", "groups", "hosts"} |->
       IF key \notin DOMAIN tmp_data.v THEN acc[key]
       ELSE IF key = "all" THEN merge_in_place(acc[key], tmp_data.v[key])
       ELSE merge_section(acc[key], tmp_data.v[key])]

\* line 156: .items() of a section that is present but no mapping
ItemsRaises(tmp_data) ==
    \E section \in {"hosts", "groups"} :
        section \in DOMAIN tmp_data.v /\ tmp_data.v[section].t # "dict"

ValFileName(i) == PathJoin(ValFilesFldr, "val" \o Digit(i) \o ".yml")

NoFilesMsg(val_files_fldr) ==
    "[X] There are no .yml validation files in " \o val_files_fldr

NoneHaveMsg(val_files_fldr) ==
    "[X] None of the validation files in " \o val_files_fldr
      \o " have all, groups or hosts dictionaries"

\* faulty variant: one empty section is enough for the files to be rejected
all_sections_empty_any(input) ==
    \E key \in {"all", "groups", "hosts"} : DOMAIN input[key].v = {}

\* line 162
all_sections_empty(input) ==
    \A key \in {"all", "groups", "hosts"} : DOMAIN input[key].v = {}

\* lines 143-160: the loop over the files from the i-th on
RECURSIVE MergeLoop(_, _, _)
MergeLoop(acc, all_files, i) ==
    IF i > Len(all_files) THEN [end |-> Accepted, input_data |-> acc]
    ELSE LET tmp_data == all_files[i]
             val == _val_input_file("validate", ValFileName(i), tmp_data)
         IN IF val.status # "accepted" THEN [end |-> val, input_data |-> acc]
            ELSE IF ItemsRaises(tmp_data)
              THEN [end |-> [status |-> "raise", code |-> 1, out |-> "AttributeError"],
                    input_data |-> acc]
            ELSE MergeLoop(merge_document(acc, tmp_data), all_files, i + 1)

\* lines 134-168: how the call ends and the dict it returns
_get_merge_val_files(all_files) ==
    LET empty == [key \in {"all", "groups", "hosts"} |-> PyDict(EmptyDict)]
        merged == MergeLoop(empty, all_files, 1)
    IN IF Len(all_files) = 0
         THEN [end |-> SysExit(1, NoFilesMsg(ValFilesFldr)), input_data |-> empty]
       ELSE IF merged.end.status # "accepted" THEN merged
       ELSE IF all_sections_empty(merged.input_data)
         THEN [end |-> SysExit(1, NoneHaveMsg(ValFilesFldr)),
               input_data |-> merged.input_data]
       ELSE merged

\* leaf objects of the documents: lists of commands, a scalar and a nested
\* mapping that has a list and scalars itself
MergeLeaf(cmd, ver, opt) ==
    PyDict([k \in {"cmd_print", "ver", "opt"} |->
              CASE k = "cmd_print" -> PyList(cmd)
                [] k = "ver" -> PyStr(ver)
                [] OTHER -> opt])

\* the documents of the files
MergeDocuments ==
    { PyDict([k \in {"all"} |-> PyDict([j \in {"cmd_print"} |-> PyList(<<"a">>)])]),
      PyDict([k \in {"all"} |->
                PyDict([j \in {"cmd_print", "ver"} |->
                          IF j = "ver" THEN PyStr("2") ELSE PyList(<<"b">>)])]),
      PyDict([k \in {"hosts"} |->
                PyDict([j \in {"R1"} |->
                          MergeLeaf(<<"a">>, "1",
                                    PyDict([x \in {"x", "y"} |->
                                              IF x = "x" THEN PyList(<<"a">>)
                                              ELSE PyStr("1")]))])]),
      PyDict([k \in {"hosts"} |->
                PyDict([j \in {"R1", "R2"} |->
                          IF j = "R2"
                            THEN PyDict([x \in {"cmd_print"} |-> PyList(<<"b">>)])
                            ELSE MergeLeaf(<<"a", "c">>, "2",
                                           PyDict([x \in {"x", "z"} |->
                                                     IF x = "x" THEN PyList(<<"b">>)
                                                     ELSE PyStr("2")]))])]),
      PyDict([k \in {"groups", "all"} |->
                IF k = "all" THEN PyDict([j \in {"ver"} |-> PyStr("1")])
                ELSE PyDict([j \in {"ios"} |->
                               PyDict([x \in {"cmd_print"} |-> PyList(<<"b">>)])])]),
      \* valid documents that hold nothing
      PyDict([k \in {"all"} |-> PyDict(EmptyDict)]),
      PyDict([k \in {"groups", "hosts"} |-> PyDict(EmptyDict)]),
      \* an empty file, a document without a section, a document whose
      \* hosts key has no value
      PyNone,
      PyDict([k \in {"foo"} |-> PyDict(EmptyDict)]),
      PyDict([k \in {"all", "hosts"} |->
                IF k = "all" THEN PyDict([j \in {"ver"} |-> PyStr("1")]) ELSE PyNone]) }

InitMerge ==
    /\ input_data \in UNION { [1..k -> MergeDocuments] : k \in 0..MaxFiles }
    /\ run_type = "none"
    /\ data = NoData
    /\ clock = 0
    /\ files = InitFiles
    /\ pc = [n \in HostNames |-> "idle"]
    /\ cmds = [n \in HostNames |-> NoCmds]
    /\ result = [n \in HostNames |-> <<>>]
    /\ ret = [n \in HostNames |-> NoRet]
    /\ log = [n \in HostNames |-> <<>>]
    /\ runs = 0
    /\ outcome = NoOutcome
    /\ nr_cmd = NoInstance
    /\ dirs = InitDirs \cup {ValFilesFldr}

\* val_arg for the validate flag given a change directory, lines 334-342
ValArg ==
    /\ outcome.status = "none"
    /\ LET r == _get_merge_val_files(input_data)
       IN /\ outcome' = r.end
          /\ data' = IF r.end.status = "accepted"
                       THEN [k \in {"output_fldr", "val_files_fldr", "input_data"} |->
                               CASE k = "output_fldr" -> PyStr(OutputFldr)
                                 [] k = "val_files_fldr" -> PyStr(ValFilesFldr)
                                 [] OTHER -> PyDict(r.input_data)]
                       ELSE data
    /\ run_type' = "validate"
    /\ dirs' = dirs \cup {OutputFldr, ValFilesFldr}
    /\ UNCHANGED <<nr_cmd, input_data, clock, files, pc, cmds, result, ret, log, runs>>

NextMerge == ValArg

SpecMerge == InitMerge /\ [][NextMerge]_vars

-----------------------------------------------------------------------------
(* Merge claims, checked under SpecMerge *)

Merged == outcome.status = "accepted"

\* the merged specification returned
MergedData == data["input_data"].v

\* the documents were all processed: each passed the validation and its
\* hosts and groups sections, if present, are mappings
Processed ==
    \A i \in 1..Len(input_data) :
        /\ HasMapping(input_data[i])
        /\ \A section \in {"hosts", "groups"} :
              section \in DOMAIN input_data[i].v => input_data[i].v[section].t = "dict"

\* the values the documents hold, in processing order, for the `all`
\* section (name = "") or for one named entry of the section hosts or groups
EntryValues(section, name) ==
    LET holds(doc) ==
            /\ section \in DOMAIN doc.v
            /\ doc.v[section].t = "dict"
            /\ name # "" => name \in DOMAIN doc.v[section].v
        having == SelectSeq(input_data, holds)
    IN [i \in 1..Len(having) |->
          IF name = "" THEN having[i].v[section] ELSE having[i].v[section].v[name]]

\* m is what the values vals, in this order, merge to: lists are
\* concatenated, mappings merged key by key, of scalars the last is taken
RECURSIVE MergesTo(_, _)
MergesTo(m, vals) ==
    IF \A i \in 1..Len(vals) : vals[i].t = "list"
      THEN m = PyList(Flatten([i \in 1..Len(vals) |-> vals[i].v]))
    ELSE IF \A i \in 1..Len(vals) : vals[i].t = "dict"
      THEN /\ m.t = "dict"
           /\ DOMAIN m.v = UNION { DOMAIN vals[i].v : i \in 1..Len(vals) }
           /\ \A k \in DOMAIN m.v :
                 LET with == SelectSeq(vals, LAMBDA d : k \in DOMAIN d.v)
                 IN MergesTo(m.v[k], [i \in 1..Len(with) |-> with[i].v[k]])
    ELSE m = vals[Len(vals)]

\* the names of the entries the documents hold in a section
EntryNames(section) ==
    UNION { IF section \in DOMAIN input_data[i].v /\ input_data[i].v[section].t = "dict"
              THEN DOMAIN input_data[i].v[section].v ELSE {} :
            i \in 1..Len(input_data) }

\* C22: the merged specification is the structural merge of the documents
\* in processing order: in `all` and in every named entry of groups and
\* hosts lists are concatenated without deduplication, a scalar has the
\* value of the last document that sets it, nested mappings are merged key
\* by key, and an entry that one document only holds is taken as it is.
C22_MergeSemantics ==
    Merged =>
        /\ IF EntryValues("all", "") = <<>>
             THEN MergedData["all"] = PyDict(EmptyDict)
             ELSE MergesTo(MergedData["all"], EntryValues("all", ""))
        /\ \A section \in {"groups", "hosts"} :
              /\ DOMAIN MergedData[section].v = EntryNames(section)
              /\ \A name \in EntryNames(section) :
                    /\ MergesTo(MergedData[section].v[name], EntryValues(section, name))
                    /\ Len(EntryValues(section, name)) = 1 =>
                          MergedData[section].v[name] = EntryValues(section, name)[1]

\* two documents with the entry R1 merged, the entry R2 of the later one
\* taken as it is: the command both documents list is there twice, the
\* scalar is the later one, the nested mapping has the keys of both
C22_Witness ==
    /\ Merged
    /\ Len(input_data) = 2
    /\ DOMAIN MergedData["hosts"].v = {"R1", "R2"}
    /\ MergedData["hosts"].v["R1"].v["cmd_print"] = PyList(<<"a", "a", "c">>)
    /\ MergedData["hosts"].v["R1"].v["ver"] = PyStr("2")
    /\ MergedData["hosts"].v["R1"].v["opt"]
         = PyDict([x \in {"x", "y", "z"} |->
                     CASE x = "x" -> PyList(<<"a", "b">>)
                       [] x = "y" -> PyStr("1")
                       [] OTHER -> PyStr("2")])
    /\ MergedData["hosts"].v["R2"] = PyDict([x \in {"cmd_print"} |-> PyList(<<"b">>)])

\* no document holds anything in a section that is a mapping
NothingContributed ==
    \A i \in 1..Len(input_data) : \A key \in {"all", "groups", "hosts"} :
        (key \in DOMAIN input_data[i].v /\ input_data[i].v[key].t = "dict") =>
            DOMAIN input_data[i].v[key].v = {}

\* C26: once every document has been processed, the merge ends the
\* invocation with an error if and only if the merged sections all, groups
\* and hosts are all empty; documents that pass the validation with empty
\* sections only are rejected.
C26_AllEmptyFails ==
    (Validated /\ Processed) =>
        /\ outcome.status \in {"exit", "accepted"}
        /\ outcome.status = "exit" <=> NothingContributed
        /\ outcome.status = "exit" => outcome.code # 0 /\ data = NoData
        /\ Merged => \E key \in {"all", "groups", "hosts"} : DOMAIN MergedData[key].v # {}

\* two documents that pass the validation, with empty sections only, are
\* rejected
C26_Witness ==
    /\ Validated
    /\ Len(input_data) = 2
    /\ input_data[1] # input_data[2]
    /\ Processed
    /\ NothingContributed
    /\ outcome = SysExit(1, NoneHaveMsg(ValFilesFldr))

\* the lists of the documents of all_files in another order
Reorderings(all_files) ==
    { [i \in 1..Len(all_files) |-> all_files[f[i]]] :
        f \in { g \in [1..Len(all_files) -> 1..Len(all_files)] :
                  \A i, j \in 1..Len(all_files) : g[i] = g[j] => i = j } }

\* C30: the merged specification is the same whatever the order in which
\* the files are processed.
C30_OrderIndependent ==
    (Merged /\ Processed) =>
        \A other \in Reorderings(input_data) :
            /\ _get_merge_val_files(other).end.status = "accepted"
            /\ PyDict(_get_merge_val_files(other).input_data) = data["input_data"]

====
